---- MODULE Spec2Model ----
(***************************************************************************)
(* WoL-Caster (src/wol_caster.py): the network discovery engine.           *)
(*                                                                         *)
(* The module holds several specifications over one set of variables:      *)
(*   Spec       the GUI process from construction on: one continuous scan  *)
(*              worker, the live callback, update_known_devices, the tree  *)
(*              view merge, stop and history clear;                        *)
(*   SpecToggle the same process when the scan button is pressed again     *)
(*              after a stop, so that a second worker thread may start     *)
(*              while the first has not yet left its cycle;                *)
(*   SpecMerge  the two presentation merges (update_tree_view and          *)
(*              view_devices_cli) applied to arbitrary fresh and           *)
(*              persisted device lists, once and a second time;            *)
(*   SpecCli    the command line interface: load, scan, store, view;       *)
(*   SpecSched  the thread-pool scheduling of one interface scan in its    *)
(*              four modes (live, batch, progress, parallel), with probes  *)
(*              that raise and result waits that time out;                 *)
(*   SpecFiles  both programs started on files that may be unreadable,     *)
(*              and saves that may fail;                                   *)
(*   SpecPad    pad_mac_address and get_mac_address on MAC texts;          *)
(*   SpecCidr   get_network_interfaces on addresses, netmasks and          *)
(*              neighbour tables;                                          *)
(*   SpecStatus check_device_status on every answer of a host;             *)
(*   SpecIdent  get_device_identifier on every answer of its five methods; *)
(*   SpecSave   the GUI process with save_persistent_data in two steps,    *)
(*              the open of the file and the end of the dump;              *)
(*   SpecImport the GUI process with the import of exported device files;  *)
(*   SpecStop   the GUI process whose scan is stopped and not started      *)
(*              again, with a fairly scheduled worker thread;              *)
(*   SpecEnum   get_network_interfaces on a machine with several           *)
(*              addresses whose queries may fail.                          *)
(* Each specification moves its own group of variables and leaves the      *)
(* others at their initial values.                                         *)
(***************************************************************************)
EXTENDS Integers, Sequences, FiniteSets, TLC

(***************************************************************************)
(* Bounds of the model.                                                    *)
(***************************************************************************)
\* host addresses of the scanned subnet that the model enumerates
NumHosts == 2
\* scan cycles (values of time.time()) a behaviour may go through
MaxTime == 2
\* scan_worker threads that may be alive together
MaxThreads == 2
\* host addresses of the subnet whose scan is followed task by task
SchedHosts == 5
\* chunk_size (255 in the source), max_workers of the chunked scans (20) and of
\* the parallel CLI scan (50), scaled to the subnet above
ChunkSize == 3
PoolSize == 2
ParallelPoolSize == 3

(***************************************************************************)
(* Values.                                                                 *)
(***************************************************************************)
\* Python None, and a key that is absent from a dict
None == "None"

\* An address is <<first three octets, last octet>>.
HomeNet == "192.168.0"
CampusNet == "134.124.230"

\* host_ips = [str(ip) for ip in network.hosts()], in address order
host_ips == [h \in 1..NumHosts |-> <<HomeNet, h>>]

\* f".{ip.split('.')[-1]}": the last-octet label
LastOctetLabel(ip) == <<".1", ".2", ".3", ".4", ".5", ".6">>[ip[2]]

\* get_mac_vendor: the OUI database lookup, a fixed table
get_mac_vendor(mac) ==
    IF mac = None THEN None
    ELSE IF mac = "AA:BB:CC:DD:EE:FF" THEN "Synology"
    ELSE None

Macs == {"AA:BB:CC:DD:EE:FF", "12:34:56:78:9A:BC"}

\* Python truthiness of an optional string, and of a number
Truthy(v) == v # None /\ v # ""
TruthyNum(n) == n # 0

\* index of the first record of list with this ip, 0 when there is none
FindIp(list, ip) ==
    IF \E k \in 1..Len(list) : list[k].ip = ip
    THEN CHOOSE k \in 1..Len(list) :
            /\ list[k].ip = ip
            /\ \A m \in 1..(k - 1) : list[m].ip # ip
    ELSE 0

Ips(list) == {list[k].ip : k \in 1..Len(list)}

UniqueIps(list) == \A a, b \in 1..Len(list) : list[a].ip = list[b].ip => a = b

(***************************************************************************)
(* State.                                                                  *)
(***************************************************************************)
VARIABLES
    known_devices,        \* self.known_devices: interface name -> list of records
    known_tag,            \* identity of the list object held under each key
    disk,                 \* content of ~/.wol_caster/known_devices.json
    device_data,          \* self.device_data: interface name -> list of records
    network_data,         \* self.network_data: interface name -> interface record
    scanning_active,      \* self.scanning_active
    broadcasting_active,  \* self.broadcasting_active
    worker,               \* the scan_worker threads: position and locals
    clock,                \* time.time(), one tick per scan of an interface
    earned,               \* <<interface, ip, field>> the store held non-empty since the last clear
    classified,           \* <<interface, ip>> loaded at start, and classified online or
                          \* standby since the last clear
    net,                  \* "changing": hosts come and go; "stable": every host answers alike
    \* the merge on its own (SpecMerge)
    fresh,                \* the scan results of the interface
    persisted,            \* the store's list of the interface
    primary,              \* the interface's own subnet
    merged,               \* the merged devices, in the order of the tree
    phase,                \* what has been applied to the inputs
    \* the CLI process (SpecCli)
    cli_known,            \* cli_persistent_data['known_devices']
    cli,                  \* position and locals of the CLI operation under way
    cli_debug,            \* cli_persistent_data['debug_mode']
    \* the other files of ~/.wol_caster, and the file system
    tree_states,          \* tree_states.json: "none", "valid" or "corrupt"
    debug_settings,       \* debug_settings.json: "none", "true", "false" or "corrupt"
    fs,                   \* "sound": every write succeeds; "failing": a write may fail
    saving,               \* [gui, overlapped]: the GUI thread is inside
                          \* save_persistent_data; two saves had the files open together
    \* a function of the module called on its own
    call,                 \* [fn, arg, result, done]
    \* one subnet scan on its worker pool (SpecSched)
    sched

guiVars == <<known_devices, known_tag, disk, device_data, network_data,
             scanning_active, broadcasting_active, worker, clock, earned, classified, net>>
mergeVars == <<fresh, persisted, primary, merged, phase>>
cliVars == <<cli_known, cli, cli_debug>>
fileVars == <<tree_states, debug_settings, fs, saving>>
schedVars == <<sched>>

vars == <<guiVars, mergeVars, cliVars, schedVars, fileVars, call>>

\* what the GUI process leaves alone
nonGuiVars == <<mergeVars, cliVars, schedVars>>

Threads == 1..MaxThreads

\* known_devices.json does not exist
NoFile == [f \in {"no file"} |-> <<>>]
\* known_devices.json cannot be read or parsed (json.load raises)
Corrupt == [f \in {"corrupt"} |-> <<>>]
NoTag == -1

\* a dict with no entries, and a dict with one entry
EmptyDict == [k \in {} |-> <<>>]
Put(d, k, v) == [x \in (DOMAIN d) \cup {k} |-> IF x = k THEN v ELSE d[x]]
Get(d, k, default) == IF k \in DOMAIN d THEN d[k] ELSE default

\* no device: the local has no value yet
NoDevice == [ip |-> <<None, 0>>, hostname |-> None, mac |-> None, vendor |-> None,
             status |-> "none", pingable |-> FALSE, last_seen |-> 0]
NoProbe == [status |-> "none", hostname |-> None, mac |-> None]

\* no save is under way
NoSave == [gui |-> FALSE, overlapped |-> FALSE]

\* no function is called on its own
NoCall == [fn |-> "none", arg |-> <<>>, result |-> <<>>, done |-> FALSE]

\* the thread has not been started, or has returned
Idle == [pc |-> "none", idx |-> 0, iface |-> None, known |-> <<>>, tag |-> NoTag,
         n |-> 0, devices |-> <<>>, i |-> 0, probe |-> NoProbe, device |-> NoDevice,
         got |-> FALSE, j |-> 0,
         \* what the cycle under way started from and has seen: the store's list at
         \* its start, the hosts its probes classified online or standby, and
         \* whether the history was cleared since
         before |-> <<>>, seen |-> {}, cleared |-> FALSE,
         \* the hosts whose probe result the cycle's result loop received
         probed |-> {},
         \* whether the scan of the cycle failed as a whole
         failed |-> FALSE]

\* the CLI at its menu
CliMenu == [pc |-> "menu", iface |-> None, before |-> <<>>, devices |-> <<>>,
            todo |-> {}, ip |-> <<None, 0>>, probe |-> NoProbe, device |-> NoDevice,
            got |-> FALSE, now |-> 0]

\* get_network_interfaces(): the interfaces of the machine
get_network_interfaces == <<[interface |-> "en0", subnet |-> "192.168.0.0/24"]>>

(***************************************************************************)
(* The probe of one host.                                                  *)
(***************************************************************************)
\* What the network answers to the probe of one host: check_device_status,
\* and for a host that answers get_device_identifier and get_mac_address.
\* No answer at all; an answer to the ping with or without a resolved name and
\* an ARP entry; no answer to the ping but an open port.
Responses(ip) ==
    IF net = "stable"
    THEN {[status |-> "online", hostname |-> "nas.local", mac |-> "AA:BB:CC:DD:EE:FF"]}
    ELSE {[status |-> "offline", hostname |-> None, mac |-> None],
          [status |-> "standby", hostname |-> LastOctetLabel(ip), mac |-> None]}
         \cup [status : {"online"},
               hostname : {"nas.local", LastOctetLabel(ip)},
               mac : Macs \cup {None}]

\* How the wait for a probe's result may end: TRUE with the result, FALSE timed
\* out; in a stable network no wait times out.
ResultWaits == IF net = "stable" THEN {TRUE} ELSE BOOLEAN

\* scan_ip (in scan_network_for_devices_live and scan_network_for_devices)
scan_ip(ip, known_list, r, now) ==
    LET up == r.status \in {"online", "standby"}
        hostname == IF up THEN r.hostname ELSE None
        mac_address == IF up THEN r.mac ELSE None
        k == IF known_list # <<>> THEN FindIp(known_list, ip) ELSE 0
        status == IF up THEN r.status
                  ELSE IF known_list = <<>> THEN "hidden"
                  ELSE IF k # 0 THEN r.status
                  ELSE "hidden"
        display_hostname ==
            IF up
            THEN IF Truthy(hostname) THEN hostname
                 ELSE IF k # 0 THEN known_list[k].hostname ELSE LastOctetLabel(ip)
            ELSE IF known_list # <<>> /\ k # 0 THEN known_list[k].hostname
            ELSE None
    IN  [ip |-> ip,
         hostname |-> display_hostname,
         mac |-> IF Truthy(mac_address) THEN mac_address
                 ELSE IF k # 0 THEN known_list[k].mac ELSE None,
         vendor |-> None,
         status |-> status,
         pingable |-> (status = "online"),
         last_seen |-> IF up THEN now
                       ELSE IF k # 0 THEN known_list[k].last_seen ELSE 0]

\* dict.update(device): the keys of a scan result overwrite, 'vendor' is no key of it
DictUpdate(existing, device) ==
    [existing EXCEPT !.ip = device.ip, !.hostname = device.hostname,
                     !.mac = device.mac, !.status = device.status,
                     !.pingable = device.pingable, !.last_seen = device.last_seen]

\* the body of "if device['status'] != 'hidden'": update the entry of this ip or append
MergeResult(devices, device) ==
    LET e == FindIp(devices, device.ip)
    IN  IF e # 0 THEN [devices EXCEPT ![e] = DictUpdate(@, device)]
        ELSE Append(devices, device)

\* a result loop that includes every device
IncludedAlways(device) == device.status \in {"hidden", "offline", "standby", "online"}

\* the result loop's filter: only non-hidden devices are included
Included(device) == device.status # "hidden"

\* the record update_known_devices builds from a device ('pingable' is no key of
\* it: an absent key reads as False, dict.get('pingable', False))
KnownRecord(device) ==
    LET vendor == IF Truthy(device.mac) THEN get_mac_vendor(device.mac) ELSE None
    IN  [ip |-> device.ip,
         hostname |-> device.hostname,
         mac |-> device.mac,
         vendor |-> IF Truthy(vendor) /\ vendor # "Unknown" THEN vendor ELSE None,
         status |-> device.status,
         pingable |-> FALSE,
         last_seen |-> device.last_seen]

\* update_known_devices stores a device unless it is hidden
Persisted(device) == device.status # "hidden"

(***************************************************************************)
(* Identity of the lists the store holds.  A scan receives the store's     *)
(* list object itself and puts its dicts into the result list, so what the *)
(* scan writes into such a dict is seen by every holder of that list.      *)
(***************************************************************************)
UsedTags == {known_tag[f] : f \in DOMAIN known_tag} \cup {worker[t].tag : t \in Threads}

FreshTag == CHOOSE g \in 0..(MaxThreads + 2) :
                /\ g \notin UsedTags
                /\ \A h \in 0..(g - 1) : h \in UsedTags

\* existing_device.update(device) on the dict at position e of the list tagged g
StoreAfterUpdate(g, e, device) ==
    [f \in DOMAIN known_devices |->
        IF known_tag[f] = g /\ g # NoTag /\ e <= Len(known_devices[f])
        THEN [known_devices[f] EXCEPT ![e] = DictUpdate(@, device)]
        ELSE known_devices[f]]

HolderAfterUpdate(w, g, e, device) ==
    IF w.tag = g /\ g # NoTag
    THEN [w EXCEPT !.known = IF e <= Len(w.known)
                             THEN [w.known EXCEPT ![e] = DictUpdate(@, device)]
                             ELSE w.known,
                   !.devices = IF e <= w.n /\ e <= Len(w.devices)
                               THEN [w.devices EXCEPT ![e] = DictUpdate(@, device)]
                               ELSE w.devices]
    ELSE w

\* list.append(record) on the store's list tagged g, seen by the scans that hold it
HolderAfterAppend(w, g, record) ==
    IF w.tag = g /\ g # NoTag THEN [w EXCEPT !.known = Append(w.known, record)] ELSE w

(***************************************************************************)
(* live_device_callback(device, interface_name)                            *)
(***************************************************************************)
live_device_callback(data, device, interface_name) ==
    LET list == Get(data, interface_name, <<>>)
        e == FindIp(list, device.ip)
    IN  Put(data, interface_name,
            IF e # 0 THEN [list EXCEPT ![e] = DictUpdate(@, device)]
            ELSE Append(list, device))

(***************************************************************************)
(* The hard-earned fields a store holds.                                   *)
(***************************************************************************)
FieldOf(record, field) ==
    CASE field = "hostname" -> record.hostname
      [] field = "mac" -> record.mac
      [] field = "vendor" -> record.vendor

HardEarnedFields == {"hostname", "mac", "vendor"}

\* a record as update_known_devices wrote it in an earlier session
Stored(ip, hostname, mac, status) ==
    KnownRecord([ip |-> ip, hostname |-> hostname, mac |-> mac, vendor |-> None,
                 status |-> status, pingable |-> FALSE, last_seen |-> 0])

Nas == Stored(<<HomeNet, 1>>, "nas.local", "AA:BB:CC:DD:EE:FF", "online")
Campus == Stored(<<CampusNet, 5>>, "lab.campus", "12:34:56:78:9A:BC", "online")

\* exportJSON: the dict written for a device of the list under interface_name,
\* "{k: v for k, v in export_device.items() if v or v is False}"
export_device(interface_name, device) ==
    LET texts == [mac |-> device.mac, hostname |-> device.hostname,
                  vendor |-> device.vendor, status |-> device.status,
                  interface |-> interface_name]
        keys == {"ip", "current_scan", "historical"}
                   \cup {k \in DOMAIN texts : Truthy(texts[k])}
                   \cup (IF TruthyNum(device.last_seen) THEN {"last_seen"} ELSE {})
    IN  [k \in keys |->
            CASE k = "ip" -> device.ip
              [] k = "last_seen" -> device.last_seen
              [] k \in {"current_scan", "historical"} -> FALSE
              [] OTHER -> texts[k]]

\* the device dicts of an exported file
ExportedDevices == {export_device("en0", Nas), export_device("en0", Campus)}

\* isinstance(value, list), for the values the store may hold
isinstance_list(value) == value \notin ExportedDevices

\* the keys of a store that hold lists
ListKeys(store) == {f \in DOMAIN store : isinstance_list(store[f])}

\* the <<interface, ip>> a store holds
StoreIps(store) ==
    UNION {{<<f, store[f][k].ip>> : k \in 1..Len(store[f])} : f \in ListKeys(store)}

\* nothing loaded, nothing classified
NoHistory == [loaded |-> {}, up |-> {}]

EarnedOf(store) ==
    UNION {UNION {{<<f, store[f][k].ip, fld>> :
                       fld \in {x \in HardEarnedFields : Truthy(FieldOf(store[f][k], x))}} :
                  k \in 1..Len(store[f])} :
           f \in ListKeys(store)}

(***************************************************************************)
(* scan_worker: one thread per call of start_continuous_scan / start_scan. *)
(***************************************************************************)
\* a loop that does not look at the flag: "while True:"
scan_worker_while_true(t) ==
    /\ worker[t].pc = "while"
    /\ worker' = [worker EXCEPT ![t].pc = "for", ![t].idx = 1]
    /\ UNCHANGED <<network_data, device_data>>
    /\ UNCHANGED <<known_devices, known_tag, disk, scanning_active,
                   broadcasting_active, clock, earned, classified, net>>
    /\ UNCHANGED <<nonGuiVars, fileVars, call>>

\* "while self.scanning_active:" and the registration of new networks
scan_worker_while(t) ==
    /\ worker[t].pc = "while"
    /\ IF scanning_active
       THEN LET interfaces == get_network_interfaces
                new == {interfaces[k].interface : k \in 1..Len(interfaces)}
                          \ DOMAIN network_data
                info(f) == interfaces[CHOOSE k \in 1..Len(interfaces) :
                                          interfaces[k].interface = f]
            IN  /\ network_data' = [f \in DOMAIN network_data \cup new |->
                                      IF f \in new THEN info(f) ELSE network_data[f]]
                /\ device_data' = [f \in DOMAIN device_data \cup new |->
                                      IF f \in new THEN <<>> ELSE device_data[f]]
                /\ worker' = [worker EXCEPT ![t].pc = "for", ![t].idx = 1]
       ELSE /\ worker' = [worker EXCEPT ![t] = Idle]
            /\ UNCHANGED <<network_data, device_data>>
    /\ UNCHANGED <<known_devices, known_tag, disk, scanning_active,
                   broadcasting_active, clock, earned, classified, net>>
    /\ UNCHANGED <<nonGuiVars, fileVars, call>>

\* "for interface in interfaces:" up to the call of scan_network_for_devices_live,
\* and that function up to its first chunk
scan_worker_for(t) ==
    /\ worker[t].pc = "for"
    /\ LET interfaces == get_network_interfaces
           w == worker[t]
       IN  IF w.idx > Len(interfaces) \/ ~scanning_active
           THEN /\ worker' = [worker EXCEPT ![t].pc = "sleep"]
                /\ UNCHANGED clock
           ELSE LET name == interfaces[w.idx].interface
                    known == Get(known_devices, name, <<>>)
                IN  /\ clock < MaxTime
                    /\ clock' = clock + 1
                    /\ worker' = [worker EXCEPT ![t] =
                          [w EXCEPT !.pc = "scan", !.iface = name, !.known = known,
                                    !.tag = Get(known_tag, name, NoTag),
                                    !.n = Len(known), !.devices = known, !.i = 1,
                                    !.before = known, !.seen = {}, !.probed = {},
                                    !.cleared = FALSE]]
    /\ UNCHANGED <<known_devices, known_tag, disk, device_data, network_data,
                   scanning_active, broadcasting_active, earned, classified, net>>
    /\ UNCHANGED <<nonGuiVars, fileVars, call>>

\* One host of scan_network_for_devices_live: scan_ip on a pool thread and the
\* result loop's turn for its future.  got = FALSE: future.result(timeout=3)
\* raised (the wait timed out), and the loop went on to the next future.
scan_host(t) ==
    /\ worker[t].pc = "scan"
    /\ worker[t].i <= Len(host_ips)
    /\ \E got \in ResultWaits :
       \E r \in Responses(host_ips[worker[t].i]) :
          LET w == worker[t]
              ip == host_ips[w.i]
              device == scan_ip(ip, w.known, r, clock)
              take == got /\ Included(device)
              e == FindIp(w.devices, ip)
              shared == take /\ e # 0 /\ e <= w.n
              me == [(IF shared THEN HolderAfterUpdate(w, w.tag, e, device) ELSE w)
                        EXCEPT !.devices = IF take THEN MergeResult(w.devices, device)
                                           ELSE w.devices,
                               !.i = w.i + 1, !.probe = r, !.device = device,
                               !.got = got,
                               !.seen = IF r.status \in {"online", "standby"}
                                        THEN w.seen \cup {ip} ELSE w.seen,
                               !.probed = IF got THEN w.probed \cup {ip} ELSE w.probed]
          IN  /\ worker' = [v \in Threads |->
                              IF v = t THEN me
                              ELSE IF shared
                                   THEN HolderAfterUpdate(worker[v], w.tag, e, device)
                                   ELSE worker[v]]
              /\ known_devices' = IF shared THEN StoreAfterUpdate(w.tag, e, device)
                                  ELSE known_devices
              /\ device_data' = IF take
                                THEN live_device_callback(device_data, device, w.iface)
                                ELSE device_data
              /\ classified' = IF r.status \in {"online", "standby"}
                                THEN [classified EXCEPT !.up = @ \cup {<<w.iface, ip>>}]
                                ELSE classified
    /\ UNCHANGED <<known_tag, disk, network_data, scanning_active,
                   broadcasting_active, clock, earned, net>>
    /\ UNCHANGED <<nonGuiVars, fileVars, call>>

\* scan_network_for_devices_live returns; scan_worker stores the result
scan_assign(t, devices) ==
    LET w == worker[t]
        interfaces == get_network_interfaces
    IN  /\ network_data' = Put(network_data, w.iface, interfaces[w.idx])
        /\ device_data' = Put(device_data, w.iface, devices)
        /\ UNCHANGED <<known_devices, known_tag, disk, scanning_active,
                       broadcasting_active, clock, earned, classified, net>>
        /\ UNCHANGED <<nonGuiVars, fileVars, call>>

\* "return devices" after the last chunk
scan_return(t) ==
    /\ worker[t].pc = "scan"
    /\ worker[t].i > Len(host_ips)
    /\ worker' = [worker EXCEPT ![t].pc = "ukd", ![t].known = <<>>,
                                ![t].probe = NoProbe, ![t].device = NoDevice,
                                ![t].got = FALSE]
    /\ scan_assign(t, worker[t].devices)

\* "except Exception: return []": the scan as a whole failed
scan_raises(t) ==
    /\ worker[t].pc = "scan"
    /\ worker' = [worker EXCEPT ![t].pc = "ukd", ![t].known = <<>>, ![t].tag = NoTag,
                                ![t].n = 0, ![t].devices = <<>>,
                                ![t].probe = NoProbe, ![t].device = NoDevice,
                                ![t].got = FALSE, ![t].failed = TRUE]
    /\ scan_assign(t, <<>>)

(***************************************************************************)
(* update_known_devices(interface_name, devices), statement by statement   *)
(***************************************************************************)
\* self.known_devices[interface_name] = []
update_known_devices_reset(t) ==
    /\ worker[t].pc = "ukd"
    /\ known_devices' = Put(known_devices, worker[t].iface, <<>>)
    /\ known_tag' = Put(known_tag, worker[t].iface, FreshTag)
    /\ worker' = [worker EXCEPT ![t].pc = "ukd_loop", ![t].j = 1]
    /\ UNCHANGED <<disk, device_data, network_data, scanning_active,
                   broadcasting_active, clock, earned, classified, net>>
    /\ UNCHANGED <<nonGuiVars, fileVars, call>>

\* one turn of "for device in devices:"
update_known_devices_loop(t) ==
    /\ worker[t].pc = "ukd_loop"
    /\ worker[t].j <= Len(worker[t].devices)
    /\ LET w == worker[t]
           device == w.devices[w.j]
       IN  IF ~Persisted(device)
           THEN /\ worker' = [worker EXCEPT ![t].j = w.j + 1]
                /\ UNCHANGED known_devices
           ELSE IF w.iface \in DOMAIN known_devices
           THEN /\ known_devices' = [known_devices EXCEPT ![w.iface] =
                                        Append(@, KnownRecord(device))]
                /\ worker' = [v \in Threads |->
                      LET h == HolderAfterAppend(worker[v], known_tag[w.iface],
                                                 KnownRecord(device))
                      IN  IF v = t THEN [h EXCEPT !.j = w.j + 1] ELSE h]
           \* KeyError: the dict was replaced; scan_worker's handler sleeps and loops
           ELSE /\ worker' = [worker EXCEPT ![t] = [Idle EXCEPT !.pc = "sleep"]]
                /\ UNCHANGED known_devices
    /\ UNCHANGED <<known_tag, disk, device_data, network_data, scanning_active,
                   broadcasting_active, clock, earned, classified, net>>
    /\ UNCHANGED <<nonGuiVars, fileVars, call>>

\* How a save may end.  "written": both files are written.  "open": the open of
\* known_devices.json raises and nothing is written.  "dump": json.dump into
\* known_devices.json raises and leaves the truncated file.  "states": the write of
\* tree_states.json raises after known_devices.json was written.
WriteOutcomes == IF fs = "sound" THEN {"written"}
                 ELSE {"written", "open", "dump", "states"}

\* a handler of the failure that empties the store
save_except_resetting(outcome) == IF outcome = "written" THEN known_devices ELSE EmptyDict

\* the store after the save: "except Exception as e: print(...)" and no more
save_except(outcome) == known_devices

\* save_persistent_data(): json.dump(self.known_devices), then the tree states
save_persistent_data ==
    \E outcome \in WriteOutcomes :
       /\ known_devices' = save_except(outcome)
       /\ disk' = CASE outcome = "open" -> disk
                    [] outcome = "dump" -> Corrupt
                    [] OTHER -> known_devices
       /\ tree_states' = CASE outcome = "written" -> "valid"
                           [] outcome = "states" -> "corrupt"
                           [] OTHER -> tree_states

\* the loop is over: "self.save_persistent_data()", and on to the next interface
update_known_devices_save(t) ==
    /\ worker[t].pc = "ukd_loop"
    /\ worker[t].j > Len(worker[t].devices)
    /\ save_persistent_data
    /\ earned' = earned \cup EarnedOf(known_devices)
    /\ UNCHANGED classified
    /\ worker' = [worker EXCEPT ![t] = [Idle EXCEPT !.pc = "for",
                                                    !.idx = worker[t].idx + 1]]
    /\ UNCHANGED <<known_tag, device_data, network_data,
                   scanning_active, broadcasting_active, clock, net>>
    /\ UNCHANGED <<nonGuiVars, debug_settings, fs, saving, call>>

\* the wait between two cycles
scan_worker_sleep(t) ==
    /\ worker[t].pc = "sleep"
    /\ worker' = [worker EXCEPT ![t] = [Idle EXCEPT !.pc = "while"]]
    /\ UNCHANGED <<known_devices, known_tag, disk, device_data, network_data,
                   scanning_active, broadcasting_active, clock, earned, classified, net>>
    /\ UNCHANGED <<nonGuiVars, fileVars, call>>

scan_worker(t) ==
    \/ scan_worker_while(t)
    \/ scan_worker_for(t)
    \/ scan_host(t)
    \/ scan_return(t)
    \/ scan_raises(t)
    \/ update_known_devices_reset(t)
    \/ update_known_devices_loop(t)
    \/ update_known_devices_save(t)
    \/ scan_worker_sleep(t)

(***************************************************************************)
(* The GUI thread.                                                         *)
(***************************************************************************)
\* toggle_scan -> stop_scan
stop_scan ==
    /\ scanning_active
    /\ scanning_active' = FALSE
    /\ UNCHANGED <<known_devices, known_tag, disk, device_data, network_data,
                   broadcasting_active, worker, clock, earned, classified, net>>
    /\ UNCHANGED <<nonGuiVars, fileVars, call>>

\* toggle_scan -> start_scan
start_scan ==
    /\ ~scanning_active /\ ~broadcasting_active
    /\ \E t \in Threads :
          /\ worker[t].pc = "none"
          /\ \A u \in 1..(t - 1) : worker[u].pc # "none"
          /\ worker' = [worker EXCEPT ![t].pc = "while"]
    /\ scanning_active' = TRUE
    /\ UNCHANGED <<known_devices, known_tag, disk, device_data, network_data,
                   broadcasting_active, clock, earned, classified, net>>
    /\ UNCHANGED <<nonGuiVars, fileVars, call>>

\* toggle_broadcast -> start_broadcast, with a selection and the confirmation of
\* the user; broadcast_worker sends its packets on a thread of its own and
\* touches none of the variables
start_broadcast ==
    /\ ~broadcasting_active
    /\ broadcasting_active' = TRUE
    /\ UNCHANGED <<known_devices, known_tag, disk, device_data, network_data,
                   scanning_active, worker, clock, earned, classified, net>>
    /\ UNCHANGED <<nonGuiVars, fileVars, call>>

\* toggle_broadcast -> stop_broadcast -> broadcast_stopped
stop_broadcast ==
    /\ broadcasting_active
    /\ broadcasting_active' = FALSE
    /\ UNCHANGED <<known_devices, known_tag, disk, device_data, network_data,
                   scanning_active, worker, clock, earned, classified, net>>
    /\ UNCHANGED <<nonGuiVars, fileVars, call>>

\* broadcast_worker has sent its packets: broadcast_complete
broadcast_complete ==
    /\ broadcasting_active
    /\ broadcasting_active' = FALSE
    /\ UNCHANGED <<known_devices, known_tag, disk, device_data, network_data,
                   scanning_active, worker, clock, earned, classified, net>>
    /\ UNCHANGED <<nonGuiVars, fileVars, call>>

\* clear_persistent_data, confirmed by the user
clear_persistent_data ==
    /\ known_devices' = EmptyDict
    /\ known_tag' = EmptyDict
    /\ network_data' = EmptyDict
    /\ device_data' = EmptyDict
    /\ scanning_active' = FALSE
    /\ disk' = NoFile
    /\ earned' = {}
    /\ classified' = [classified EXCEPT !.up = {}]
    /\ worker' = [t \in Threads |->
                    IF worker[t].pc \in {"scan", "ukd", "ukd_loop"}
                    THEN [worker[t] EXCEPT !.cleared = TRUE] ELSE worker[t]]
    /\ tree_states' = "none"
    /\ UNCHANGED <<broadcasting_active, clock, net>>
    /\ UNCHANGED <<nonGuiVars, debug_settings, fs, saving, call>>

\* update_tree_view: the tree is rebuilt from the merge, then "Save tree states"
update_tree_view ==
    /\ save_persistent_data
    /\ UNCHANGED <<known_tag, device_data, network_data,
                   scanning_active, broadcasting_active, worker, clock, earned, classified, net>>
    /\ UNCHANGED <<nonGuiVars, debug_settings, fs, saving, call>>

(***************************************************************************)
(* update_tree_view: the merge of the scan results with the store.         *)
(* A merged dict has the device's keys and may have four more; an absent   *)
(* key is None, an absent 'stored_last_seen' is 0 (it is never set to 0).  *)
(***************************************************************************)
\* the if/elif chain on the address prefix, with the interface subnet as fallback
network_key_of(ip, fallback) ==
    IF ip[1] = "192.168.0" THEN "192.168.0.0/24"
    ELSE IF ip[1] = "134.124.230" THEN "134.124.230.0/24"
    ELSE IF ip[1] = "134.124.231" THEN "134.124.231.0/24"
    ELSE fallback

\* a merge in which a non-empty persisted value replaces the device's value
smart_merge_stored_prevails(merged_device, stored_list) ==
    LET k == FindIp(stored_list, merged_device.ip)
    IN  IF k = 0 THEN merged_device
        ELSE [merged_device EXCEPT
                !.hostname = IF Truthy(stored_list[k].hostname)
                             THEN stored_list[k].hostname ELSE @,
                !.mac = IF Truthy(stored_list[k].mac) THEN stored_list[k].mac ELSE @,
                !.vendor = IF Truthy(stored_list[k].vendor)
                           THEN stored_list[k].vendor ELSE @]

\* "Smart merge": the persisted value fills a field the device leaves empty
smart_merge(merged_device, stored_list) ==
    LET k == FindIp(stored_list, merged_device.ip)
    IN  IF k = 0 THEN merged_device
        ELSE LET stored_device == stored_list[k]
             IN  [merged_device EXCEPT
                    !.hostname = IF ~Truthy(@) /\ Truthy(stored_device.hostname)
                                 THEN stored_device.hostname ELSE @,
                    !.mac = IF ~Truthy(@) /\ Truthy(stored_device.mac)
                            THEN stored_device.mac ELSE @,
                    !.vendor = IF ~Truthy(@) /\ Truthy(stored_device.vendor)
                               THEN stored_device.vendor ELSE @,
                    !.stored_last_seen = IF TruthyNum(stored_device.last_seen)
                                         THEN stored_device.last_seen ELSE @]

\* a validation that trusts the recorded status in every context
validate_context_trusting(merged_device, network_key, subnet) ==
    [merged_device EXCEPT !.network_context =
        IF network_key = subnet THEN "primary"
        ELSE IF merged_device.pingable THEN "discovered_online"
        ELSE "discovered_offline"]

\* a validation that downgrades what is not pingable in every context
validate_context_everywhere(merged_device, network_key, subnet) ==
    IF ~merged_device.pingable
    THEN [merged_device EXCEPT !.status = "offline",
                               !.network_context = "discovered_offline"]
    ELSE [merged_device EXCEPT !.network_context =
             IF network_key # subnet THEN "discovered_online" ELSE "primary"]

\* "Validate network context for status"
validate_context(merged_device, network_key, subnet) ==
    IF network_key # subnet
    THEN IF ~merged_device.pingable
         THEN [merged_device EXCEPT !.status = "offline",
                                    !.network_context = "discovered_offline"]
         ELSE [merged_device EXCEPT !.network_context = "discovered_online"]
    ELSE [merged_device EXCEPT !.network_context = "primary"]

\* network_groups, a dict in insertion order: a sequence of [key, devices]
GroupIndex(groups, key) ==
    IF \E g \in 1..Len(groups) : groups[g].key = key
    THEN CHOOSE g \in 1..Len(groups) : groups[g].key = key
    ELSE 0

\* network_groups.get(key, [])
GroupOf(groups, key) ==
    IF GroupIndex(groups, key) = 0 THEN <<>> ELSE groups[GroupIndex(groups, key)].devices

\* "if key not in network_groups: network_groups[key] = []", then the append
GroupAppend(groups, key, d) ==
    IF GroupIndex(groups, key) = 0
    THEN Append(groups, [key |-> key, devices |-> <<d>>])
    ELSE [groups EXCEPT ![GroupIndex(groups, key)].devices = Append(@, d)]

\* "for device in devices:" of an active interface
RECURSIVE merge_scanned(_, _, _, _, _)
merge_scanned(devices, stored_list, subnet, k, groups) ==
    IF k > Len(devices) THEN groups
    ELSE LET key == network_key_of(devices[k].ip, subnet)
             merged_device == validate_context(smart_merge(devices[k], stored_list),
                                               key, subnet)
         IN  merge_scanned(devices, stored_list, subnet, k + 1,
                           GroupAppend(groups, key, merged_device))

\* known.copy(): the keys of the record it is taken from
CopyKnown(known) ==
    [ip |-> known.ip, hostname |-> known.hostname, mac |-> known.mac,
     vendor |-> known.vendor, status |-> known.status,
     pingable |-> known.pingable, last_seen |-> known.last_seen,
     stored_last_seen |-> IF "stored_last_seen" \in DOMAIN known
                          THEN known.stored_last_seen ELSE 0,
     network_context |-> IF "network_context" \in DOMAIN known
                         THEN known.network_context ELSE None,
     current_scan |-> IF "current_scan" \in DOMAIN known
                      THEN known.current_scan ELSE None,
     historical |-> IF "historical" \in DOMAIN known THEN known.historical ELSE None]

\* the record synthesized for a persisted device the scan results do not hold
offline_device(known) ==
    [CopyKnown(known) EXCEPT !.status = "offline", !.current_scan = "False"]

\* "for known in known_devices:" of an active interface
RECURSIVE add_offline(_, _, _, _)
add_offline(stored_list, subnet, k, groups) ==
    IF k > Len(stored_list) THEN groups
    ELSE LET key == network_key_of(stored_list[k].ip, subnet)
             already_found == stored_list[k].ip \in Ips(GroupOf(groups, key))
         IN  add_offline(stored_list, subnet, k + 1,
                         IF already_found THEN groups
                         ELSE GroupAppend(groups, key, offline_device(stored_list[k])))

\* the network groups of one active interface
merge_active(devices, stored_list, subnet) ==
    add_offline(stored_list, subnet, 1,
                merge_scanned(devices, stored_list, subnet, 1, <<>>))

\* f"{'.'.join(network_parts[:3])}.0/24"
Slash24(prefix) ==
    CASE prefix = "192.168.0" -> "192.168.0.0/24"
      [] prefix = "134.124.230" -> "134.124.230.0/24"
      [] prefix = "10.0.0" -> "10.0.0.0/24"
      [] OTHER -> "0.0.0.0/24"

\* the key of a device of an interface that is not active
historical_key_of(ip) == network_key_of(ip, Slash24(ip[1]))

historical_device(device) ==
    [CopyKnown(device) EXCEPT !.status = "offline", !.current_scan = "False",
                              !.historical = "True"]

\* "for device in known_devices:" of an interface of the store that is not active
RECURSIVE merge_historical(_, _, _)
merge_historical(stored_list, k, groups) ==
    IF k > Len(stored_list) THEN groups
    ELSE merge_historical(stored_list, k + 1,
                          GroupAppend(groups, historical_key_of(stored_list[k].ip),
                                      historical_device(stored_list[k])))

\* device.copy() of every device of a list
CopyAll(devices) == [k \in 1..Len(devices) |-> CopyKnown(devices[k])]

\* adapter_network_devices: adapter -> network groups
adapter_network_devices(nd, dd, kd) ==
    [f \in DOMAIN nd \cup DOMAIN kd |->
        IF f \in DOMAIN nd
        THEN merge_active(CopyAll(Get(dd, f, <<>>)), Get(kd, f, <<>>), nd[f].subnet)
        ELSE merge_historical(kd[f], 1, <<>>)]

\* the devices of the groups, in the order of the tree
RECURSIVE Flatten(_)
Flatten(groups) ==
    IF groups = <<>> THEN <<>> ELSE Head(groups).devices \o Flatten(Tail(groups))

\* the devices the tree shows in this state: <<adapter, network key, device>>
Emitted(nd, dd, kd) ==
    LET a == adapter_network_devices(nd, dd, kd)
    IN  UNION {UNION {{<<f, a[f][g].key, a[f][g].devices[k]>> :
                          k \in 1..Len(a[f][g].devices)} :
                      g \in 1..Len(a[f])} :
               f \in DOMAIN a}

(***************************************************************************)
(* view_devices_cli: the merge of the CLI's device view.                   *)
(***************************************************************************)
\* "HARD-EARNED DATA ALWAYS PREVAILS": a non-empty stored value replaces the device's
cli_merge_device(device, known_devices_list) ==
    LET k == FindIp(known_devices_list, device.ip)
        merged_device == CopyKnown(device)
    IN  IF k = 0 THEN merged_device
        ELSE LET stored_device == known_devices_list[k]
             IN  [merged_device EXCEPT
                    !.hostname = IF Truthy(stored_device.hostname)
                                 THEN stored_device.hostname ELSE @,
                    !.mac = IF Truthy(stored_device.mac) THEN stored_device.mac ELSE @,
                    !.vendor = IF Truthy(stored_device.vendor)
                               THEN stored_device.vendor ELSE @,
                    !.stored_last_seen = IF TruthyNum(stored_device.last_seen)
                                         THEN stored_device.last_seen ELSE @]

\* "for known_device in known_devices:" adds what merged_devices does not hold
RECURSIVE cli_add_offline(_, _, _)
cli_add_offline(known_devices_list, k, merged_devices) ==
    IF k > Len(known_devices_list) THEN merged_devices
    ELSE cli_add_offline(known_devices_list, k + 1,
            IF known_devices_list[k].ip \in Ips(merged_devices) THEN merged_devices
            ELSE Append(merged_devices, offline_device(known_devices_list[k])))

\* merged_devices of one interface; current_devices is known_devices itself
cli_merged_devices(known_devices_list) ==
    LET current_devices == known_devices_list
    IN  cli_add_offline(known_devices_list, 1,
            [k \in 1..Len(current_devices) |->
                cli_merge_device(current_devices[k], known_devices_list)])

(***************************************************************************)
(* Spec: the GUI process with its continuous scan.                         *)
(***************************************************************************)
\* the stores known_devices.json may hold when the process starts
InitStores == {EmptyDict,
               Put(EmptyDict, "en0", <<Nas>>),
               Put(EmptyDict, "en0", <<Nas, Campus>>)}

\* the pool before a scan is followed
NoSched == [pc |-> "none", mode |-> "none", chunk_start |-> 0, next |-> 0,
            task |-> [h \in 1..SchedHosts |-> "new"], processed |-> {},
            timed_out |-> {}, key |-> FALSE, interrupted |-> FALSE,
            raised |-> {}, failed |-> {}, cb_raised |-> {}, aborted |-> FALSE,
            \* the executors created, as <<first, last>> of the hosts each was given,
            \* and how often each host was submitted
            chunks |-> <<>>, submitted |-> [h \in 1..SchedHosts |-> 0]]

\* __init__: load_persistent_data, then start_continuous_scan
Init ==
    /\ known_devices \in InitStores
    /\ known_tag = [f \in DOMAIN known_devices |-> 0]
    /\ disk = IF known_devices = EmptyDict THEN NoFile ELSE known_devices
    /\ device_data = EmptyDict
    /\ network_data = EmptyDict
    /\ scanning_active = TRUE
    /\ broadcasting_active = FALSE
    /\ worker = [t \in Threads |-> IF t = 1 THEN [Idle EXCEPT !.pc = "while"] ELSE Idle]
    /\ clock = 0
    /\ earned = EarnedOf(known_devices)
    /\ classified = [loaded |-> StoreIps(known_devices), up |-> {}]
    /\ net = "changing"
    /\ fresh = <<>>
    /\ persisted = <<>>
    /\ primary = "192.168.0.0/24"
    /\ merged = <<>>
    /\ phase = "none"
    /\ cli_known = EmptyDict
    /\ cli = [CliMenu EXCEPT !.pc = "none"]
    /\ sched = NoSched
    /\ cli_debug = FALSE
    /\ tree_states = "none"
    /\ debug_settings = "none"
    /\ fs = "sound"
    /\ saving = NoSave
    /\ call = NoCall

Next ==
    \/ \E t \in Threads : scan_worker(t)
    \/ stop_scan
    \/ clear_persistent_data
    \/ update_tree_view

Spec == Init /\ [][Next]_vars

(***************************************************************************)
(* SpecToggle: the GUI process whose user stops and starts the scan, in a  *)
(* stable network.                                                         *)
(***************************************************************************)
InitToggle ==
    /\ known_devices \in {EmptyDict, Put(EmptyDict, "en0", <<Nas>>)}
    /\ known_tag = [f \in DOMAIN known_devices |-> 0]
    /\ disk = IF known_devices = EmptyDict THEN NoFile ELSE known_devices
    /\ device_data = EmptyDict
    /\ network_data = EmptyDict
    /\ scanning_active = TRUE
    /\ broadcasting_active = FALSE
    /\ worker = [t \in Threads |-> IF t = 1 THEN [Idle EXCEPT !.pc = "while"] ELSE Idle]
    /\ clock = 0
    /\ earned = EarnedOf(known_devices)
    /\ classified = [loaded |-> StoreIps(known_devices), up |-> {}]
    /\ net = "stable"
    /\ fresh = <<>>
    /\ persisted = <<>>
    /\ primary = "192.168.0.0/24"
    /\ merged = <<>>
    /\ phase = "none"
    /\ cli_known = EmptyDict
    /\ cli = [CliMenu EXCEPT !.pc = "none"]
    /\ sched = NoSched
    /\ cli_debug = FALSE
    /\ tree_states = "none"
    /\ debug_settings = "none"
    /\ fs = "sound"
    /\ saving = NoSave
    /\ call = NoCall

NextToggle ==
    \/ \E t \in Threads : scan_worker(t)
    \/ stop_scan
    \/ start_scan
    \/ start_broadcast
    \/ stop_broadcast
    \/ broadcast_complete

SpecToggle == InitToggle /\ [][NextToggle]_vars

(***************************************************************************)
(* SpecMerge: the two merges on their own, on inputs drawn from bounded    *)
(* sets.                                                                   *)
(***************************************************************************)
MergeIps == {<<HomeNet, 1>>, <<CampusNet, 5>>, <<"10.0.0", 3>>}

\* a device of device_data: a scan result, or a record of the store that the scan
\* took into its list (status as stored, 'pingable' absent)
FreshRecords ==
    {[ip |-> ip, hostname |-> h, mac |-> m, vendor |-> v, status |-> sp[1],
      pingable |-> sp[2], last_seen |-> 2] :
        ip \in MergeIps, h \in {None, "fresh.local"}, m \in {None, "12:34:56:78:9A:BC"},
        v \in {None, "Acme"},
        sp \in {<<"online", TRUE>>, <<"standby", FALSE>>, <<"offline", FALSE>>,
                <<"online", FALSE>>}}

\* a record of the store
PersistedRecords ==
    [ip : MergeIps, hostname : {None, "nas.local"}, mac : {None, "AA:BB:CC:DD:EE:FF"},
     vendor : {None, "Synology"}, status : {"online", "offline"}, pingable : {FALSE},
     last_seen : {0, 1}]

\* the record that follows a in the lists of two
Second(a) ==
    [ip |-> IF a.ip = <<HomeNet, 1>> THEN <<CampusNet, 5>> ELSE <<HomeNet, 1>>,
     hostname |-> "lab.campus", mac |-> None, vendor |-> None, status |-> "online",
     pingable |-> FALSE, last_seen |-> 1]

ListsOf(records) ==
    {<<>>} \cup {<<a>> : a \in records} \cup {<<a, Second(a)>> : a \in records}

Subnets == {"192.168.0.0/24", "192.168.0.0/25"}

InitMerge ==
    /\ fresh \in ListsOf(FreshRecords)
    /\ persisted \in ListsOf(PersistedRecords) \cup {fresh}
    /\ primary \in Subnets
    /\ merged = <<>>
    /\ phase = "input"
    /\ known_devices = EmptyDict
    /\ known_tag = EmptyDict
    /\ disk = NoFile
    /\ device_data = EmptyDict
    /\ network_data = EmptyDict
    /\ scanning_active = FALSE
    /\ broadcasting_active = FALSE
    /\ worker = [t \in Threads |-> Idle]
    /\ clock = 0
    /\ earned = {}
    /\ classified = NoHistory
    /\ net = "changing"
    /\ cli_known = EmptyDict
    /\ cli = [CliMenu EXCEPT !.pc = "none"]
    /\ sched = NoSched
    /\ cli_debug = FALSE
    /\ tree_states = "none"
    /\ debug_settings = "none"
    /\ fs = "sound"
    /\ saving = NoSave
    /\ call = NoCall

\* update_tree_view's merge of one active interface
merge_gui ==
    /\ phase = "input"
    /\ merged' = <<Flatten(merge_active(CopyAll(fresh), persisted, primary))>>
    /\ phase' = "gui"
    /\ UNCHANGED <<fresh, persisted, primary>>
    /\ UNCHANGED <<guiVars, cliVars, schedVars, fileVars, call>>

\* the same merge, of its own result with a copy of it
merge_gui_again ==
    /\ phase = "gui"
    /\ Len(merged) = 1
    /\ merged' = Append(merged, Flatten(merge_active(CopyAll(merged[1]), merged[1], primary)))
    /\ UNCHANGED <<fresh, persisted, primary, phase>>
    /\ UNCHANGED <<guiVars, cliVars, schedVars, fileVars, call>>

\* view_devices_cli's merge of one interface of its store
merge_cli ==
    /\ phase = "input"
    /\ merged' = <<cli_merged_devices(persisted)>>
    /\ phase' = "cli"
    /\ UNCHANGED <<fresh, persisted, primary>>
    /\ UNCHANGED <<guiVars, cliVars, schedVars, fileVars, call>>

merge_cli_again ==
    /\ phase = "cli"
    /\ Len(merged) = 1
    /\ merged' = Append(merged, cli_merged_devices(merged[1]))
    /\ UNCHANGED <<fresh, persisted, primary, phase>>
    /\ UNCHANGED <<guiVars, cliVars, schedVars, fileVars, call>>

NextMerge == merge_gui \/ merge_gui_again \/ merge_cli \/ merge_cli_again

SpecMerge == InitMerge /\ [][NextMerge]_vars

(***************************************************************************)
(* SpecCli: the CLI process (run_cli) beside the file the GUI wrote.       *)
(***************************************************************************)
\* f"Device-{last octet}" and f"Standby-{last octet}"
DeviceLabel(ip) == <<"Device-1", "Device-2", "Device-3", "Device-4">>[ip[2]]
StandbyLabel(ip) == <<"Standby-1", "Standby-2", "Standby-3", "Standby-4">>[ip[2]]

\* scan_single_ip(ip): a host that does not answer is hidden, whatever the store holds
scan_single_ip(ip, r, now) ==
    LET up == r.status \in {"online", "standby"}
    IN  [ip |-> ip,
         hostname |-> IF up THEN (IF Truthy(r.hostname) THEN r.hostname
                                  ELSE LastOctetLabel(ip))
                      ELSE None,
         mac |-> IF up THEN r.mac ELSE None,
         vendor |-> None,
         status |-> IF up THEN r.status ELSE "hidden",
         pingable |-> (up /\ r.status = "online"),
         last_seen |-> IF up THEN now ELSE 0]

\* scan_single_ip_fast(ip): None (NoDevice) for a host that does not answer; the
\* name is the resolved one, the generic label counting as none resolved
scan_single_ip_fast(ip, r, now) ==
    IF r.status = "online"
    THEN [ip |-> ip,
          hostname |-> IF Truthy(r.hostname) /\ r.hostname # LastOctetLabel(ip)
                       THEN r.hostname ELSE DeviceLabel(ip),
          mac |-> r.mac,
          vendor |-> IF Truthy(r.mac) THEN get_mac_vendor(r.mac) ELSE None,
          status |-> "online", pingable |-> FALSE, last_seen |-> now]
    ELSE IF r.status = "standby"
    THEN [ip |-> ip, hostname |-> StandbyLabel(ip), mac |-> None, vendor |-> None,
          status |-> "standby", pingable |-> FALSE, last_seen |-> now]
    ELSE NoDevice

\* "if device and device['status'] != 'hidden'"
CliIncluded(device) == device # NoDevice /\ device.status # "hidden"

\* load_cli_persistent_data(): known_devices.json, then debug_settings.json; a
\* json.load that raises is caught and both settings are reset
load_cli_persistent_data ==
    IF disk = Corrupt \/ debug_settings = "corrupt" THEN EmptyDict
    ELSE IF disk = NoFile THEN EmptyDict
    ELSE disk

\* the debug mode load_cli_persistent_data sets
load_cli_debug_mode ==
    IF disk = Corrupt \/ debug_settings = "corrupt" THEN FALSE
    ELSE debug_settings = "true"

\* run_cli up to its menu
run_cli ==
    /\ cli.pc = "start"
    /\ cli_known' = load_cli_persistent_data
    /\ cli_debug' = load_cli_debug_mode
    /\ cli' = CliMenu
    /\ UNCHANGED <<guiVars, mergeVars, schedVars, fileVars, call>>

\* menu 1, scan_networks_cli: the previous results of the interface are deleted
\* and scan_network_parallel submits every host
scan_networks_cli ==
    /\ cli.pc = "menu"
    /\ cli.now < MaxTime
    /\ LET name == get_network_interfaces[1].interface
       IN  /\ cli_known' = [f \in DOMAIN cli_known \ {name} |-> cli_known[f]]
           /\ cli' = [CliMenu EXCEPT !.pc = "parallel", !.iface = name,
                                     !.before = Get(cli_known, name, <<>>),
                                     !.todo = 1..Len(host_ips), !.now = cli.now + 1]
    /\ UNCHANGED <<cli_debug, guiVars, mergeVars, schedVars, fileVars, call>>

\* one turn of "for future in as_completed(future_to_ip):"
scan_parallel_result ==
    /\ cli.pc = "parallel"
    /\ \E h \in cli.todo :
       \E r \in Responses(host_ips[h]) :
          LET device == scan_single_ip_fast(host_ips[h], r, cli.now)
          IN  cli' = [cli EXCEPT !.todo = @ \ {h}, !.ip = host_ips[h], !.probe = r,
                                 !.device = device, !.got = TRUE,
                                 !.devices = IF CliIncluded(device)
                                             THEN Append(@, device) ELSE @]
    /\ UNCHANGED <<cli_known, cli_debug, guiVars, mergeVars, schedVars, fileVars, call>>

\* the scan returns; "cli_persistent_data['known_devices'][name] = devices"
scan_store ==
    /\ cli.pc \in {"parallel", "progress"}
    /\ cli.todo = {}
    /\ cli_known' = Put(cli_known, cli.iface, cli.devices)
    /\ cli' = [CliMenu EXCEPT !.now = cli.now]
    /\ UNCHANGED <<cli_debug, guiVars, mergeVars, schedVars, fileVars, call>>

\* get_cli_selection: the interface is scanned when the store has no entry for
\* it, and on the command 'scan'; scan_network_for_devices_with_progress checks
\* the interrupt key before the chunk
get_cli_selection ==
    /\ cli.pc = "menu"
    /\ cli.now < MaxTime
    /\ \E interrupted \in BOOLEAN :
          LET name == get_network_interfaces[1].interface
          IN  cli' = [CliMenu EXCEPT !.pc = "progress", !.iface = name,
                                     !.before = Get(cli_known, name, <<>>),
                                     !.todo = IF interrupted THEN {}
                                              ELSE 1..Len(host_ips),
                                     !.now = cli.now + 1]
    /\ UNCHANGED <<cli_known, cli_debug, guiVars, mergeVars, schedVars, fileVars, call>>

\* one turn of "for future in device_futures:"; got = FALSE: the wait timed out
scan_progress_result ==
    /\ cli.pc = "progress"
    /\ cli.todo # {}
    /\ \E got \in BOOLEAN :
       \E r \in Responses(host_ips[CHOOSE h \in cli.todo : \A g \in cli.todo : h <= g]) :
          LET h == CHOOSE h \in cli.todo : \A g \in cli.todo : h <= g
              device == IF got THEN scan_single_ip(host_ips[h], r, cli.now) ELSE NoDevice
          IN  cli' = [cli EXCEPT !.todo = @ \ {h}, !.ip = host_ips[h], !.probe = r,
                                 !.device = device, !.got = got,
                                 !.devices = IF CliIncluded(device)
                                             THEN Append(@, device) ELSE @]
    /\ UNCHANGED <<cli_known, cli_debug, guiVars, mergeVars, schedVars, fileVars, call>>

\* menu 2, view_devices_cli: an empty store is loaded again, then the merge is shown
view_devices_cli ==
    /\ cli.pc = "menu"
    /\ cli_known' = IF cli_known = EmptyDict THEN load_cli_persistent_data ELSE cli_known
    /\ cli_debug' = IF cli_known = EmptyDict THEN load_cli_debug_mode ELSE cli_debug
    /\ UNCHANGED <<cli, guiVars, mergeVars, schedVars, fileVars, call>>

\* a file name that is the one of the device store
debug_file_is_devices_file == "known_devices.json"

\* the file toggle_debug_mode_cli opens for writing
debug_file == "debug_settings.json"

\* menu 8, toggle_debug_mode_cli: the flag is flipped and written to debug_file,
\* the only file a CLI operation opens for writing; a failure is a warning
toggle_debug_mode_cli ==
    /\ cli.pc = "menu"
    /\ cli_debug' = ~cli_debug
    /\ \E outcome \in WriteOutcomes \ {"states"} :
          /\ debug_settings' =
                IF debug_file # "debug_settings.json" \/ outcome = "open"
                THEN debug_settings
                ELSE IF outcome = "dump" THEN "corrupt"
                ELSE IF ~cli_debug THEN "true" ELSE "false"
          /\ disk' =
                IF debug_file # "known_devices.json" \/ outcome = "open" THEN disk
                ELSE IF outcome = "dump" THEN Corrupt
                ELSE [f \in {"debug_mode"} |-> <<~cli_debug>>]
    /\ UNCHANGED <<known_devices, known_tag, device_data, network_data,
                   scanning_active, broadcasting_active, worker, clock, earned, classified, net>>
    /\ UNCHANGED <<cli_known, cli, tree_states, fs, saving, mergeVars, schedVars, call>>

\* what view_devices_cli shows: <<interface, merged device>>
CliShown(store) ==
    UNION {{<<f, cli_merged_devices(store[f])[k]>> : k \in 1..Len(store[f])} :
           f \in DOMAIN store}

\* the files known_devices.json may be when the CLI starts
InitFiles == {NoFile, Put(EmptyDict, "en0", <<Nas>>), Put(EmptyDict, "en0", <<Nas, Campus>>),
              Put(EmptyDict, "en1", <<Nas>>)}

InitCli ==
    /\ disk \in InitFiles
    /\ cli_known = EmptyDict
    /\ cli = [CliMenu EXCEPT !.pc = "start"]
    /\ known_devices = EmptyDict
    /\ known_tag = EmptyDict
    /\ device_data = EmptyDict
    /\ network_data = EmptyDict
    /\ scanning_active = FALSE
    /\ broadcasting_active = FALSE
    /\ worker = [t \in Threads |-> Idle]
    /\ clock = 0
    /\ earned = {}
    /\ classified = NoHistory
    /\ net = "changing"
    /\ fresh = <<>>
    /\ persisted = <<>>
    /\ primary = "192.168.0.0/24"
    /\ merged = <<>>
    /\ phase = "none"
    /\ sched = NoSched
    /\ cli_debug = FALSE
    /\ tree_states = "none"
    /\ debug_settings = "none"
    /\ fs = "sound"
    /\ saving = NoSave
    /\ call = NoCall

NextCli ==
    \/ run_cli
    \/ scan_networks_cli
    \/ scan_parallel_result
    \/ get_cli_selection
    \/ scan_progress_result
    \/ scan_store
    \/ view_devices_cli
    \/ toggle_debug_mode_cli

SpecCli == InitCli /\ [][NextCli]_vars

(***************************************************************************)
(* SpecSched: one subnet scan, task by task.  Modes: "live" and "batch"    *)
(* (scan_network_for_devices_live, scan_network_for_devices), "progress"   *)
(* (scan_network_for_devices_with_progress), "parallel"                    *)
(* (scan_network_parallel).                                                *)
(***************************************************************************)
Modes == {"live", "batch", "progress", "parallel"}

Min(a, b) == IF a < b THEN a ELSE b

\* max_workers of the executor the mode creates
max_workers(mode) == IF mode = "parallel" THEN ParallelPoolSize ELSE PoolSize

\* the hosts one executor is given: a chunk, or every host of the subnet
chunk_size(mode) == IF mode = "parallel" THEN SchedHosts ELSE ChunkSize

\* chunk_end = min(chunk_start + chunk_size, total_ips)
chunk_end == Min(sched.chunk_start + chunk_size(sched.mode), SchedHosts)

\* chunk_ips = host_ips[chunk_start:chunk_end], as indexes from 1
chunk_ips == (sched.chunk_start + 1)..chunk_end

Running == {h \in 1..SchedHosts : sched.task[h] = "running"}

\* the hosts that were given to the executor that h was given to
ExecutorOf(h) ==
    {g \in 1..SchedHosts :
        (g - 1) \div chunk_size(sched.mode) = (h - 1) \div chunk_size(sched.mode)}

\* an executor that starts a thread for every task
WorkerAlways(h) == sched.task[h] = "queued"

\* the executor of the task has fewer than max_workers threads at work
WorkerAvailable(h) == Cardinality(Running \cap ExecutorOf(h)) < max_workers(sched.mode)

\* an exit of the with block that does not wait
ShutdownAtOnce == sched.pc = "exit"

\* ThreadPoolExecutor.__exit__: shutdown(wait=True) returns when every task is over
ShutdownReturns == \A h \in chunk_ips : sched.task[h] = "done"

\* a check that never sees the key
check_for_interrupt_never == sched.key /\ sched.pc = "begin"

\* check_for_interrupt(): the key '.' is waiting on stdin
check_for_interrupt == sched.key

\* the scan is handed the subnet; scan_worker looks at scanning_active before
\* it scans an interface
scan_begin ==
    /\ sched.pc = "begin"
    /\ sched' = [sched EXCEPT !.pc = IF sched.mode = "live" /\ ~scanning_active
                                     THEN "done" ELSE "chunk"]
    /\ UNCHANGED <<guiVars, mergeVars, cliVars, fileVars, call>>

\* "for chunk_start in range(0, total_ips, chunk_size):" up to the executor
chunk_begin ==
    /\ sched.pc = "chunk"
    /\ sched' = IF sched.chunk_start >= SchedHosts
                THEN [sched EXCEPT !.pc = "done"]
                ELSE IF sched.mode = "progress" /\ check_for_interrupt
                THEN [sched EXCEPT !.pc = "done", !.interrupted = TRUE]
                ELSE [sched EXCEPT !.pc = "submit", !.next = sched.chunk_start + 1,
                                   !.chunks = Append(@, <<sched.chunk_start + 1, chunk_end>>)]
    /\ UNCHANGED <<guiVars, mergeVars, cliVars, fileVars, call>>

\* executor.submit(scan_ip, ip) for the next ip of the chunk
executor_submit ==
    /\ sched.pc = "submit"
    /\ sched' = [sched EXCEPT !.task[sched.next] = "queued",
                              !.submitted[sched.next] = @ + 1,
                              !.next = IF sched.next = chunk_end
                                       THEN sched.chunk_start + 1 ELSE @ + 1,
                              !.pc = IF sched.next = chunk_end THEN "results" ELSE @]
    /\ UNCHANGED <<guiVars, mergeVars, cliVars, fileVars, call>>

\* a worker thread of the pool takes the task from the queue
pool_start(h) ==
    /\ sched.task[h] = "queued"
    /\ \A g \in 1..(h - 1) : sched.task[g] # "queued"
    /\ WorkerAvailable(h)
    /\ sched' = [sched EXCEPT !.task[h] = "running"]
    /\ UNCHANGED <<guiVars, mergeVars, cliVars, fileVars, call>>

\* the probe of the host is over: scan_ip returns its device, or an exception
\* leaves it and is kept in the future
probe_finish(h) ==
    /\ sched.task[h] = "running"
    /\ \E raises \in BOOLEAN :
          sched' = [sched EXCEPT !.task[h] = "done",
                                 !.raised = IF raises THEN @ \cup {h} ELSE @]
    /\ UNCHANGED <<guiVars, mergeVars, cliVars, fileVars, call>>

\* a result loop without the handler: the exception leaves the loop
future_except_absent == "propagate"

\* the handler around future.result in the result loops: "except Exception:
\* scanned += 1; continue"
future_except == "continue"

\* the callbacks a scan of the mode calls in its result loop
LiveCallbackRaises == IF sched.mode = "live" THEN BOOLEAN ELSE {FALSE}

\* "for future in device_futures:" with future.result(timeout=3): the result is
\* processed, or the wait times out or the probe's exception is raised again, and
\* the loop goes on; "live_callback(device, ...)" has a try of its own
future_result ==
    /\ sched.pc = "results"
    /\ sched.mode # "parallel"
    /\ \E timeout \in BOOLEAN, callback_raises \in LiveCallbackRaises :
          LET fails == timeout \/ sched.next \in sched.raised
          IN  /\ timeout <=> sched.task[sched.next] # "done"
              /\ fails => ~callback_raises
              /\ sched' =
                   IF fails /\ future_except # "continue"
                   \* the outer handler: "except Exception: return []"
                   THEN [sched EXCEPT !.failed = @ \cup {sched.next},
                                      !.pc = "done", !.aborted = TRUE]
                   ELSE [sched EXCEPT
                      !.processed = IF fails THEN @ ELSE @ \cup {sched.next},
                      !.timed_out = IF timeout THEN @ \cup {sched.next} ELSE @,
                      !.failed = IF fails THEN @ \cup {sched.next} ELSE @,
                      !.cb_raised = IF callback_raises THEN @ \cup {sched.next} ELSE @,
                      !.next = @ + 1,
                      !.pc = IF sched.next = chunk_end THEN "exit" ELSE @]
    /\ UNCHANGED <<guiVars, mergeVars, cliVars, fileVars, call>>

\* "for future in as_completed(future_to_ip):" with future.result(timeout=1) in
\* a try whose handler counts the host and goes on
as_completed_result(h) ==
    /\ sched.pc = "results"
    /\ sched.mode = "parallel"
    /\ sched.task[h] = "done"
    /\ h \notin sched.processed \cup sched.failed
    /\ LET fails == h \in sched.raised
       IN  sched' =
             IF fails /\ future_except # "continue"
             THEN [sched EXCEPT !.failed = @ \cup {h}, !.pc = "done", !.aborted = TRUE]
             ELSE [sched EXCEPT
                !.processed = IF fails THEN @ ELSE @ \cup {h},
                !.failed = IF fails THEN @ \cup {h} ELSE @,
                !.pc = IF sched.processed \cup sched.failed \cup {h} = chunk_ips
                       THEN "exit" ELSE @]
    /\ UNCHANGED <<guiVars, mergeVars, cliVars, fileVars, call>>

\* the end of the with block, and on to the next chunk
executor_exit ==
    /\ sched.pc = "exit"
    /\ ShutdownReturns
    /\ sched' = [sched EXCEPT !.pc = "chunk", !.chunk_start = chunk_end]
    /\ UNCHANGED <<guiVars, mergeVars, cliVars, fileVars, call>>

\* the user presses '.' during a CLI scan
press_interrupt ==
    /\ sched.mode = "progress"
    /\ sched.pc # "done"
    /\ ~sched.key
    /\ sched' = [sched EXCEPT !.key = TRUE]
    /\ UNCHANGED <<guiVars, mergeVars, cliVars, fileVars, call>>

InitSched ==
    /\ \E mode \in Modes :
          sched = [pc |-> "begin", mode |-> mode, chunk_start |-> 0, next |-> 0,
                   task |-> [h \in 1..SchedHosts |-> "new"], processed |-> {},
                   timed_out |-> {}, key |-> FALSE, interrupted |-> FALSE,
                   raised |-> {}, failed |-> {}, cb_raised |-> {}, aborted |-> FALSE,
                   \* the executors created, as <<first, last>> of the hosts each was given,
                   \* and how often each host was submitted
                   chunks |-> <<>>, submitted |-> [h \in 1..SchedHosts |-> 0]]
    /\ scanning_active = (sched.mode \in {"live", "batch"})
    /\ known_devices = EmptyDict
    /\ known_tag = EmptyDict
    /\ disk = NoFile
    /\ device_data = EmptyDict
    /\ network_data = EmptyDict
    /\ broadcasting_active = FALSE
    /\ worker = [t \in Threads |-> Idle]
    /\ clock = 0
    /\ earned = {}
    /\ classified = NoHistory
    /\ net = "changing"
    /\ fresh = <<>>
    /\ persisted = <<>>
    /\ primary = "192.168.0.0/24"
    /\ merged = <<>>
    /\ phase = "none"
    /\ cli_known = EmptyDict
    /\ cli = [CliMenu EXCEPT !.pc = "none"]
    /\ cli_debug = FALSE
    /\ tree_states = "none"
    /\ debug_settings = "none"
    /\ fs = "sound"
    /\ saving = NoSave
    /\ call = NoCall

NextSched ==
    \/ scan_begin
    \/ chunk_begin
    \/ executor_submit
    \/ \E h \in 1..SchedHosts : pool_start(h)
    \/ \E h \in 1..SchedHosts : probe_finish(h)
    \/ future_result
    \/ \E h \in 1..SchedHosts : as_completed_result(h)
    \/ executor_exit
    \/ press_interrupt
    \/ stop_scan

SpecSched == InitSched /\ [][NextSched]_vars

(***************************************************************************)
(* Properties of the merge (SpecMerge).                                    *)
(***************************************************************************)
\* the value the overlay rule gives a field
Overlay(fresh_value, persisted_value) ==
    IF Truthy(fresh_value) THEN fresh_value ELSE persisted_value

\* the merged record of this ip obeys the overlay rule for device and stored
OverlayHolds(out, device, stored) ==
    LET j == FindIp(out, device.ip)
    IN  /\ j # 0
        /\ out[j].hostname = Overlay(device.hostname, stored.hostname)
        /\ out[j].mac = Overlay(device.mac, stored.mac)
        /\ out[j].vendor = Overlay(device.vendor, stored.vendor)

Discovered(m) == network_key_of(m.ip, primary) # primary

\* C8 as stated: every emitted device of a discovered context that is not pingable
\* has status offline and network_context discovered_offline, and online or standby
\* is emitted in a discovered context only for a pingable device.
C8_DowngradeAll ==
    phase = "gui" =>
       \A j \in 1..Len(merged[1]) :
          LET m == merged[1][j]
          IN  Discovered(m) =>
                 /\ ~m.pingable => /\ m.status = "offline"
                                   /\ m.network_context = "discovered_offline"
                 /\ m.status \in {"online", "standby"} => m.pingable

\* C8, amended: a device of the current device list that is in a discovered
\* context and not pingable is emitted offline with network_context
\* discovered_offline, a pingable one keeps its status; a persisted device that the
\* current device list does not hold is emitted offline with current_scan false
\* and without a network_context.
C8_Downgrade ==
    phase = "gui" =>
       /\ \A i \in 1..Len(fresh) :
             LET m == merged[1][FindIp(merged[1], fresh[i].ip)]
             IN  /\ FindIp(merged[1], fresh[i].ip) # 0
                 /\ m.current_scan = None
                 /\ Discovered(m) =>
                       IF fresh[i].pingable
                       THEN /\ m.status = fresh[i].status
                            /\ m.network_context = "discovered_online"
                       ELSE /\ m.status = "offline"
                            /\ m.network_context = "discovered_offline"
       /\ \A k \in 1..Len(persisted) :
             persisted[k].ip \notin Ips(fresh) =>
                LET m == merged[1][FindIp(merged[1], persisted[k].ip)]
                IN  /\ FindIp(merged[1], persisted[k].ip) # 0
                    /\ m.status = "offline"
                    /\ m.current_scan = "False"
                    /\ m.network_context = None

\* a device recorded online, of a foreign subnet and not pingable, was downgraded
C8_Witness ==
    /\ phase = "gui"
    /\ primary = "192.168.0.0/24"
    /\ \E i \in 1..Len(fresh), j \in 1..Len(merged[1]) :
          /\ fresh[i].ip = <<CampusNet, 5>> /\ merged[1][j].ip = fresh[i].ip
          /\ fresh[i].status = "online" /\ ~fresh[i].pingable
          /\ merged[1][j].status = "offline"
          /\ merged[1][j].network_context = "discovered_offline"

\* the seven fields of a device
Fields7(d) == <<d.ip, d.hostname, d.mac, d.vendor, d.status, d.pingable, d.last_seen>>

\* the list was merged with an identical copy of itself
Identical ==
    \/ phase = "gui" /\ persisted = fresh /\ fresh # <<>>
    \/ phase = "cli" /\ persisted # <<>>

\* the list that was merged with its copy
MergedList == IF phase = "gui" THEN fresh ELSE persisted

\* C9 as stated: merging a list with an identical copy of it leaves the seven fields
\* of every record unchanged, and merging the result again yields the same records.
C9_IdempotentAll ==
    Identical =>
       /\ Len(merged[1]) = Len(MergedList)
       /\ \A i \in 1..Len(MergedList) :
             LET j == FindIp(merged[1], MergedList[i].ip)
             IN  j # 0 /\ Fields7(merged[1][j]) = Fields7(MergedList[i])
       /\ Len(merged) = 2 => merged[2] = merged[1]

\* C9, amended: merging a list with an identical copy of it leaves ip, hostname,
\* mac, vendor, pingable and last_seen of every record unchanged, and status too
\* except that a device of a discovered context that is not pingable becomes
\* offline; merging the result again yields the same records.
C9_Idempotent ==
    Identical =>
       /\ Len(merged[1]) = Len(MergedList)
       /\ \A i \in 1..Len(MergedList) :
             LET j == FindIp(merged[1], MergedList[i].ip)
                 d == MergedList[i]
                 downgraded == phase = "gui" /\ Discovered(d) /\ ~d.pingable
             IN  /\ j # 0
                 /\ Fields7(merged[1][j]) =
                       Fields7([d EXCEPT !.status = IF downgraded THEN "offline" ELSE @])
       /\ Len(merged) = 2 => merged[2] = merged[1]

\* a list of two devices was merged with its copy, and the result merged again
C9_Witness ==
    /\ Identical
    /\ phase = "gui"
    /\ Len(fresh) = 2
    /\ Len(merged) = 2
    /\ \E i \in 1..2 : fresh[i].hostname = "fresh.local" /\ fresh[i].status = "standby"

(***************************************************************************)
(* Properties of the GUI process (Spec).                                   *)
(***************************************************************************)
\* the lists of a dict do not hold a hidden device
NoHiddenIn(dict) ==
    \A f \in DOMAIN dict : \A k \in 1..Len(dict[f]) : dict[f][k].status # "hidden"

\* C1: no hidden device is surfaced or persisted: none is in the list a scan
\* builds and returns, none reaches device_data through the live callback, none is
\* in known_devices or in known_devices.json.
C1_NoHidden ==
    /\ \A t \in Threads :
          \A k \in 1..Len(worker[t].devices) : worker[t].devices[k].status # "hidden"
    /\ NoHiddenIn(device_data)
    /\ NoHiddenIn(known_devices)
    /\ NoHiddenIn(disk)

\* the probe of the last host gave a hidden device, its future was read, and the
\* scan has all its results
C1_Witness ==
    \E t \in Threads :
       /\ worker[t].pc = "scan"
       /\ worker[t].i > Len(host_ips)
       /\ worker[t].got
       /\ worker[t].device.status = "hidden"
       /\ worker[t].device.ip \notin Ips(worker[t].devices)
       /\ worker[t].devices # <<>>

\* the store of interface f holds a non-empty value of this field for this ip
Holds(store, f, ip, fld) ==
    /\ f \in DOMAIN store
    /\ \E k \in 1..Len(store[f]) :
          store[f][k].ip = ip /\ Truthy(FieldOf(store[f][k], fld))

\* no update_known_devices is between its reset of the list and its save
BetweenCycles == \A t \in Threads : worker[t].pc # "ukd_loop"

\* C3: across scan cycles with no history clear in between, once the store holds a
\* non-empty hostname, mac or vendor for an IP of an interface, no later cycle
\* leaves that field empty or absent for that IP.
C3_HardEarned ==
    BetweenCycles => \A e \in earned : Holds(known_devices, e[1], e[2], e[3])

(***************************************************************************)
(* Properties of the classification of a host that does not answer.        *)
(***************************************************************************)
\* what the specification asks of the scan output for a host without answer: no entry when
\* the store had no record of the ip, else an offline entry with the stored
\* hostname, mac and last_seen
NoResponseOutcome(store_list, ip, out) ==
    LET k == FindIp(store_list, ip)
    IN  IF k = 0 THEN ip \notin Ips(out)
        ELSE \E j \in 1..Len(out) :
                /\ out[j].ip = ip
                /\ out[j].status = "offline"
                /\ out[j].hostname = store_list[k].hostname
                /\ out[j].mac = store_list[k].mac
                /\ out[j].last_seen = store_list[k].last_seen

\* the GUI scan read the result of a probe that got no answer
GuiNoResponse(t) ==
    /\ worker[t].pc = "scan"
    /\ worker'[t].pc = "scan"
    /\ worker'[t].i = worker[t].i + 1
    /\ worker'[t].got
    /\ worker'[t].probe.status = "offline"

\* a CLI scan read the result of a probe that got no answer
CliNoResponse ==
    /\ cli.pc \in {"parallel", "progress"}
    /\ cli'.pc = cli.pc
    /\ cli'.todo # cli.todo
    /\ cli'.got
    /\ cli'.probe.status = "offline"

\* C2: a host whose probe gets neither a ping reply nor an open port is hidden and
\* left out of the scan output when the interface's store has no record of its
\* IP, and is offline and in the output with its stored hostname, mac and
\* last_seen when the store has one, on the GUI scan and on the CLI scans.
C2_NoResponse ==
    [][/\ \A t \in Threads :
             GuiNoResponse(t) =>
                /\ NoResponseOutcome(worker[t].known, host_ips[worker[t].i],
                                     worker'[t].devices)
                /\ FindIp(worker[t].known, host_ips[worker[t].i]) = 0 =>
                      worker'[t].device.status = "hidden"
       /\ CliNoResponse =>
             NoResponseOutcome(cli.before, cli'.ip, cli'.devices)]_vars

\* the same on the GUI scan alone
C2_NoResponseGui ==
    [][\A t \in Threads :
          GuiNoResponse(t) =>
             /\ NoResponseOutcome(worker[t].known, host_ips[worker[t].i],
                                  worker'[t].devices)
             /\ FindIp(worker[t].known, host_ips[worker[t].i]) = 0 =>
                   worker'[t].device.status = "hidden"]_vars

(***************************************************************************)
(* Properties of the scan on its worker pool (SpecSched).                  *)
(***************************************************************************)
\* C5: at every moment of a subnet scan the probes that execute together are at
\* most max_workers of the scan's executor, for the chunked scans and for the
\* parallel CLI scan.
C5_PoolBound == Cardinality(Running) <= max_workers(sched.mode)

\* the pool is full and a submitted probe waits for a thread
C5_Witness ==
    /\ Cardinality(Running) = max_workers(sched.mode)
    /\ \E h \in 1..SchedHosts : sched.task[h] = "queued"

\* the first host of the chunk of h, less one
ChunkStartOf(h) == ((h - 1) \div ChunkSize) * ChunkSize

\* C6: in a chunked scan no probe of a chunk is dispatched until every probe task
\* of the chunks before it has finished executing, tasks whose result wait timed
\* out included.
C6_ChunkBarrier ==
    sched.mode # "parallel" =>
       \A h \in 1..SchedHosts :
          sched.task[h] # "new" =>
             \A g \in 1..ChunkStartOf(h) : sched.task[g] = "done"

\* the wait for a result of the first chunk timed out and the second chunk is
\* being dispatched
C6_Witness ==
    /\ sched.mode = "live"
    /\ \E g \in 1..ChunkSize : g \in sched.timed_out
    /\ sched.task[ChunkSize + 1] = "running"

\* the cancellation flag of the scan is set
Cancelled ==
    IF sched.mode = "progress" THEN sched.key ELSE ~scanning_active

\* the step dispatches a probe
Dispatch == \E h \in 1..SchedHosts : sched.task[h] = "new" /\ sched'.task[h] # "new"

UniqueIn(dict) == \A f \in DOMAIN dict : UniqueIps(dict[f])

\* C10: starting from a store with at most one record per IP per interface, the
\* list a scan builds, the device_data list and the known-device list of every
\* interface hold at most one record per IP.
C10_UniqueIps ==
    /\ \A t \in Threads : UniqueIps(worker[t].devices)
    /\ UniqueIn(device_data)
    /\ UniqueIn(known_devices)

(***************************************************************************)
(* Properties of a scan cycle as a whole.                                  *)
(***************************************************************************)
\* the worker has run update_known_devices up to its save, in a cycle during
\* which the history was not cleared
CycleStored(t) ==
    /\ worker[t].pc = "ukd_loop"
    /\ worker[t].j > Len(worker[t].devices)
    /\ ~worker[t].cleared

\* the addresses the cycle is about: those it probed and those the store held
CycleIps(t) == {host_ips[h] : h \in 1..Len(host_ips)} \cup Ips(worker[t].before)

\* C11: after a scan cycle the stored last_seen of an IP is the time of the cycle's
\* probe when that probe classified the host online or standby, and otherwise the
\* value stored before the cycle.
C11_LastSeen ==
    \A t \in Threads :
       CycleStored(t) =>
          \A ip \in CycleIps(t) :
             LET w == worker[t]
                 list == Get(known_devices, w.iface, <<>>)
                 k == FindIp(list, ip)
                 b == FindIp(w.before, ip)
             IN  IF ip \in w.seen
                 THEN k # 0 /\ list[k].last_seen = clock
                 ELSE b # 0 => k # 0 /\ list[k].last_seen = w.before[b].last_seen

\* the GUI cycle of thread t lost no address of the store it started from
GuiIpsKept(t) ==
    CycleStored(t) => Ips(worker[t].before) \subseteq
                         Ips(Get(known_devices, worker[t].iface, <<>>))

\* the step is the "Store results" of scan_networks_cli
CliStores == cli.pc = "parallel" /\ cli'.pc = "menu"

\* C12: between history clears the set of IPs the known-device store records for an
\* interface never shrinks: every IP present before a scan cycle (scan_worker cycle,
\* CLI scan) is still present after it.
C12_IpsKept ==
    [][/\ CliStores => Ips(cli.before) \subseteq Ips(Get(cli_known', cli.iface, <<>>))
       /\ \A t \in Threads : GuiIpsKept(t)']_vars

\* the scan_worker cycle alone
C12_IpsKeptGui == \A t \in Threads : GuiIpsKept(t)

(***************************************************************************)
(* Scan and broadcast.                                                     *)
(***************************************************************************)
\* a thread can still be started (the model follows MaxThreads of them)
FreeThread == \E t \in Threads : worker[t].pc = "none"

\* C13: scan and broadcast are decoupled: whatever broadcasting_active is, a
\* stopped scan can be started and a scan worker under way can take its next
\* step, and whatever scanning_active is a broadcast can be started.
C13_Decoupled ==
    /\ (~scanning_active /\ FreeThread) => ENABLED start_scan
    /\ ~broadcasting_active => ENABLED start_broadcast
    /\ \A t \in Threads :
          (worker[t].pc # "none" /\ clock < MaxTime) => ENABLED scan_worker(t)

\* the scan worker and the start of a broadcast alone
C13_ScanGoesOn ==
    /\ ~broadcasting_active => ENABLED start_broadcast
    /\ \A t \in Threads :
          (worker[t].pc # "none" /\ clock < MaxTime) => ENABLED scan_worker(t)

(***************************************************************************)
(* The files.                                                              *)
(***************************************************************************)
\* C14: no operation of the CLI (load, scan, view, selection scan, debug toggle)
\* writes known_devices.json: the content of the file is the same after the
\* operation as before it.
C14_CliNeverWrites == [][disk' = disk]_vars

\* the CLI has loaded the file, scanned and stored a result that differs from the
\* file, and written its debug setting
C14_Witness ==
    /\ cli.pc = "menu"
    /\ cli.now > 0
    /\ debug_settings = "true"
    /\ disk # NoFile
    /\ cli_known # disk

(***************************************************************************)
(* SpecPad: pad_mac_address and the MAC text get_mac_address returns.  A   *)
(* text is the sequence of its characters.                                 *)
(***************************************************************************)
\* the most groups an input text has; six make a MAC address
MaxGroups == 7

Separators == {":", "-"}

\* groups of one and of two hex digits
Groups == {<<"0">>, <<"3", "e">>, <<"A", "A">>}

\* sep.join(groups)
RECURSIVE Join(_, _)
Join(groups, sep) ==
    IF Len(groups) = 0 THEN <<>>
    ELSE IF Len(groups) = 1 THEN groups[1]
    ELSE groups[1] \o <<sep>> \o Join(Tail(groups), sep)

\* "0:3e:e1:b7:57:54", "AA:BB:CC:DD:EE:FF" and a text of 13 hex digits
ShortFirstGroup == <<"0", ":", "3", "e", ":", "e", "1", ":", "b", "7", ":", "5", "7", ":", "5", "4">>
FullMac == <<"A", "A", ":", "B", "B", ":", "C", "C", ":", "D", "D", ":", "E", "E", ":", "F", "F">>
ThirteenDigits == <<"A", "A", "B", "B", "C", "C", "D", "D", "E", "E", "F", "F", "1">>

\* the texts of n groups
GroupTexts(n) == {Join(groups, sep) : groups \in [1..n -> Groups], sep \in Separators}

\* the texts pad_mac_address is applied to, the empty text among them
MacTexts == UNION {GroupTexts(n) : n \in 0..MaxGroups}
               \cup {ShortFirstGroup, FullMac, ThirteenDigits}

\* what mac_pattern matches: six groups of one or two hex digits
Matches == GroupTexts(6) \cup {ShortFirstGroup, FullMac}

IsHexDigit(c) == c \notin Separators

\* mac_address.replace(':', '').replace('-', '')
clean_mac(mac_address) == SelectSeq(mac_address, IsHexDigit)

\* ':'.join([m[i:i+2] for i in range(0, 12, 2)])
format_mac(m) ==
    [i \in 1..17 |-> IF i % 3 = 0 THEN ":" ELSE m[2 * ((i - 1) \div 3) + ((i - 1) % 3) + 1]]

\* '0' * n
Zeros(n) == [i \in 1..n |-> "0"]

\* a padding that puts the zeros behind the digits
pad_mac_address_trailing(mac_address) ==
    IF mac_address = <<>> THEN mac_address
    ELSE LET clean == clean_mac(mac_address)
         IN  IF Len(clean) >= 12 THEN format_mac(SubSeq(clean, 1, 12))
             ELSE format_mac(clean \o Zeros(12 - Len(clean)))

\* pad_mac_address(mac_address)
pad_mac_address(mac_address) ==
    IF mac_address = <<>> THEN mac_address
    ELSE LET clean == clean_mac(mac_address)
             current_length == Len(clean)
         IN  IF current_length = 12 THEN format_mac(clean)
             ELSE IF current_length < 12
             THEN format_mac(Zeros(12 - current_length) \o clean)
             ELSE format_mac(SubSeq(clean, 1, 12))

\* str.upper() of one character
upper(c) ==
    CASE c = "a" -> "A" [] c = "b" -> "B" [] c = "c" -> "C"
      [] c = "d" -> "D" [] c = "e" -> "E" [] c = "f" -> "F"
      [] OTHER -> c

\* get_mac_address, from the match on: upper(), replace('-', ':'), pad_mac_address
get_mac_address(match) ==
    pad_mac_address([i \in 1..Len(match) |->
                       IF match[i] = "-" THEN ":" ELSE upper(match[i])])

InitPad ==
    /\ call \in [fn : {"pad_mac_address"}, arg : MacTexts, result : {<<>>},
                 done : {FALSE}]
               \cup [fn : {"get_mac_address"}, arg : Matches, result : {<<>>},
                     done : {FALSE}]
    /\ known_devices = EmptyDict
    /\ known_tag = EmptyDict
    /\ disk = NoFile
    /\ device_data = EmptyDict
    /\ network_data = EmptyDict
    /\ scanning_active = FALSE
    /\ broadcasting_active = FALSE
    /\ worker = [t \in Threads |-> Idle]
    /\ clock = 0
    /\ earned = {}
    /\ classified = NoHistory
    /\ net = "changing"
    /\ fresh = <<>>
    /\ persisted = <<>>
    /\ primary = "192.168.0.0/24"
    /\ merged = <<>>
    /\ phase = "none"
    /\ cli_known = EmptyDict
    /\ cli = [CliMenu EXCEPT !.pc = "none"]
    /\ sched = NoSched
    /\ cli_debug = FALSE
    /\ tree_states = "none"
    /\ debug_settings = "none"
    /\ fs = "sound"
    /\ saving = NoSave

pad_mac_address_call ==
    /\ call.fn = "pad_mac_address"
    /\ ~call.done
    /\ call' = [call EXCEPT !.result = pad_mac_address(call.arg), !.done = TRUE]
    /\ UNCHANGED <<guiVars, mergeVars, cliVars, schedVars, fileVars>>

get_mac_address_call ==
    /\ call.fn = "get_mac_address"
    /\ ~call.done
    /\ call' = [call EXCEPT !.result = get_mac_address(call.arg), !.done = TRUE]
    /\ UNCHANGED <<guiVars, mergeVars, cliVars, schedVars, fileVars>>

NextPad ==
    \/ pad_mac_address_call
    \/ get_mac_address_call

SpecPad == InitPad /\ [][NextPad]_vars

\* r is six colon-separated pairs
SixPairs(r) ==
    /\ Len(r) = 17
    /\ \A i \in 1..17 : (i % 3 = 0) <=> (r[i] \in Separators)
    /\ \A i \in 1..17 : r[i] # "-"

\* the twelve digits of r are those of text: all of them behind leading zeros
\* when text has at most twelve, its first twelve when it has more
PaddingRule(text, r) ==
    /\ SixPairs(r)
    /\ LET hex == clean_mac(text)
           twelve == clean_mac(r)
       IN  IF Len(hex) >= 12 THEN twelve = SubSeq(hex, 1, 12)
           ELSE /\ SubSeq(twelve, 12 - Len(hex) + 1, 12) = hex
                /\ \A i \in 1..(12 - Len(hex)) : twelve[i] = "0"

Padded == call.done /\ call.fn = "pad_mac_address"

\* "00:3E:E1:B7:57:54" and "00:3e:e1:b7:57:54"
PaddedUpper == <<"0", "0", ":", "3", "E", ":", "E", "1", ":", "B", "7", ":", "5", "7", ":", "5", "4">>
PaddedAsGiven == <<"0", "0", ":", "3", "e", ":", "e", "1", ":", "b", "7", ":", "5", "7", ":", "5", "4">>

\* C15, as stated: pad_mac_address returns for every text six colon-separated pairs
\* built from exactly 12 hex characters (the text's own 12, fewer left-padded with
\* '0', the first 12 of more), pad("0:3e:e1:b7:57:54") is "00:3E:E1:B7:57:54" and
\* pad("AA:BB:CC:DD:EE:FF") is unchanged.
C15_PaddingAsStated ==
    Padded =>
       /\ PaddingRule(call.arg, call.result)
       /\ call.arg = ShortFirstGroup => call.result = PaddedUpper
       /\ call.arg = FullMac => call.result = FullMac

\* C15: pad_mac_address returns an empty text unchanged; for every other text it
\* returns six colon-separated pairs built from exactly 12 hex characters, in the
\* case they were given in; the upper case is the work of get_mac_address, which
\* returns "00:3E:E1:B7:57:54" for the match "0:3e:e1:b7:57:54".
C15_Padding ==
    /\ Padded =>
          /\ call.arg = <<>> => call.result = <<>>
          /\ call.arg # <<>> => PaddingRule(call.arg, call.result)
          /\ call.arg = ShortFirstGroup => call.result = PaddedAsGiven
          /\ call.arg = FullMac => call.result = FullMac
    /\ (call.done /\ call.fn = "get_mac_address") =>
          /\ PaddingRule([i \in 1..Len(call.arg) |-> upper(call.arg[i])], call.result)
          /\ call.arg = ShortFirstGroup => call.result = PaddedUpper

\* a text of 13 hex digits has been padded to its first twelve
C15_Witness ==
    /\ Padded
    /\ call.arg = ThirteenDigits
    /\ call.result = FullMac

(***************************************************************************)
(* SpecCidr: get_network_interfaces for one OS interface and a neighbour   *)
(* cache.  An address is the tuple of its four octets; ipaddress computes  *)
(* on the bits of the 32-bit value, here octet by octet.                   *)
(***************************************************************************)
\* bitwise and, or of two octets; xor with 0xFF
RECURSIVE BitAnd(_, _, _)
BitAnd(a, b, bits) ==
    IF bits = 0 THEN 0
    ELSE (IF a % 2 = 1 /\ b % 2 = 1 THEN 1 ELSE 0) + 2 * BitAnd(a \div 2, b \div 2, bits - 1)

RECURSIVE BitOr(_, _, _)
BitOr(a, b, bits) ==
    IF bits = 0 THEN 0
    ELSE (IF a % 2 = 1 \/ b % 2 = 1 THEN 1 ELSE 0) + 2 * BitOr(a \div 2, b \div 2, bits - 1)

BitNot(a) == 255 - a

\* the number of one bits of an octet
RECURSIVE Ones(_)
Ones(a) == IF a = 0 THEN 0 ELSE (a % 2) + Ones(a \div 2)

\* a netmask ipaddress accepts: one bits, then zero bits
OctetMasks == {0, 128, 192, 224, 240, 248, 252, 254, 255}
IsNetmask(m) ==
    /\ \A i \in 1..4 : m[i] \in OctetMasks
    /\ \A i \in 1..3 : m[i] # 255 => m[i + 1] = 0

\* a network whose address is the host address itself
IPv4Network_unmasked(ip, netmask) ==
    [network_address |-> ip,
     prefixlen |-> Ones(netmask[1]) + Ones(netmask[2]) + Ones(netmask[3]) + Ones(netmask[4]),
     broadcast_address |-> [i \in 1..4 |-> BitOr(ip[i], BitNot(netmask[i]), 8)]]

\* ipaddress.IPv4Network(f"{ip}/{netmask}", strict=False): network_address,
\* prefixlen, broadcast_address
IPv4Network(ip, netmask) ==
    LET network_address == [i \in 1..4 |-> BitAnd(ip[i], netmask[i], 8)]
    IN  [network_address |-> network_address,
         prefixlen |-> Ones(netmask[1]) + Ones(netmask[2]) + Ones(netmask[3])
                          + Ones(netmask[4]),
         broadcast_address |-> [i \in 1..4 |->
                                   BitOr(network_address[i], BitNot(netmask[i]), 8)]]

\* "ip_obj not in IPv4Network(interface['subnet'])", the subnet <<network, prefixlen>>
InSubnet(ip, subnet) ==
    \A i \in 1..4 :
       LET bits == IF subnet[2] >= 8 * i THEN 8
                   ELSE IF subnet[2] <= 8 * (i - 1) THEN 0
                   ELSE subnet[2] - 8 * (i - 1)
           size == 2 ^ (8 - bits)
       IN  ip[i] \div size = subnet[1][i] \div size

Loopback == <<127, 0, 0, 1>>

\* the first loop: the record of an address of an OS interface, none for the
\* loopback address and none when IPv4Network raises
primary_interfaces(addr_infos) ==
    LET usable == SelectSeq(addr_infos,
                     LAMBDA a : a.addr # Loopback /\ IsNetmask(a.netmask))
    IN  [k \in 1..Len(usable) |->
           LET network == IPv4Network(usable[k].addr, usable[k].netmask)
           IN  [interface |-> usable[k].interface,
                ip |-> usable[k].addr,
                network |-> network.network_address,
                netmask |-> usable[k].netmask,
                subnet |-> <<network.network_address, network.prefixlen>>,
                broadcast |-> network.broadcast_address,
                discovered |-> FALSE]]

\* the pseudo-interface of a neighbour address outside the interface's subnet
discovered_interface(interface, part) ==
    [interface |-> interface.interface,
     ip |-> interface.ip,
     network |-> <<part[1], part[2], part[3], 0>>,
     netmask |-> <<255, 255, 255, 0>>,
     subnet |-> <<<<part[1], part[2], part[3], 0>>, 24>>,
     broadcast |-> <<part[1], part[2], part[3], 255>>,
     discovered |-> TRUE]

\* the second loop for one interface: the arp lines of the interface in order,
\* one pseudo-interface for each new /24 (discovered_networks)
RECURSIVE additional_of(_, _, _)
additional_of(interface, arp_lines, discovered_networks) ==
    IF arp_lines = <<>> THEN <<>>
    ELSE LET line == Head(arp_lines)
             found == discovered_interface(interface, line.ip)
             new == /\ line.interface = interface.interface
                    /\ ~InSubnet(line.ip, interface.subnet)
                    /\ found.subnet \notin discovered_networks
         IN  IF new
             THEN <<found>> \o additional_of(interface, Tail(arp_lines),
                                             discovered_networks \cup {found.subnet})
             ELSE additional_of(interface, Tail(arp_lines), discovered_networks)

RECURSIVE additional_interfaces(_, _)
additional_interfaces(interfaces, arp_lines) ==
    IF interfaces = <<>> THEN <<>>
    ELSE additional_of(Head(interfaces), arp_lines, {})
            \o additional_interfaces(Tail(interfaces), arp_lines)

\* get_network_interfaces() on a machine with these addresses and arp lines; the
\* neighbour cache is looked at on macOS alone
network_interfaces(system, addr_infos, arp_lines) ==
    LET interfaces == primary_interfaces(addr_infos)
    IN  interfaces \o (IF system = "Darwin"
                       THEN additional_interfaces(interfaces, arp_lines) ELSE <<>>)

\* The inputs: addresses, every netmask and one that is none, arp lines.
Addrs == {<<192, 168, 0, 10>>, <<10, 20, 30, 40>>, <<134, 124, 230, 77>>,
          <<172, 16, 255, 254>>, Loopback}

\* the bits of a prefix of length p that fall into octet i
PrefixBits(p, i) == IF p >= 8 * i THEN 8 ELSE IF p <= 8 * (i - 1) THEN 0 ELSE p - 8 * (i - 1)

Netmasks == {[i \in 1..4 |-> 256 - 2 ^ (8 - PrefixBits(p, i))] : p \in 0..32}
               \cup {<<255, 0, 255, 0>>}

ArpLine(interface, ip) == [interface |-> interface, ip |-> ip]

ArpTables ==
    {<<>>,
     <<ArpLine("en0", <<192, 168, 0, 200>>)>>,
     <<ArpLine("en0", <<192, 168, 1, 7>>), ArpLine("en1", <<10, 9, 9, 9>>),
       ArpLine("en0", <<192, 168, 1, 9>>), ArpLine("en0", <<10, 20, 30, 41>>)>>}

InitCidr ==
    /\ call \in [fn : {"get_network_interfaces"},
                 arg : [system : {"Darwin", "Linux"},
                        addr_infos : {<<[interface |-> "en0", addr |-> a, netmask |-> m]>> :
                                         a \in Addrs, m \in Netmasks},
                        arp_lines : ArpTables],
                 result : {<<>>}, done : {FALSE}]
    /\ known_devices = EmptyDict
    /\ known_tag = EmptyDict
    /\ disk = NoFile
    /\ device_data = EmptyDict
    /\ network_data = EmptyDict
    /\ scanning_active = FALSE
    /\ broadcasting_active = FALSE
    /\ worker = [t \in Threads |-> Idle]
    /\ clock = 0
    /\ earned = {}
    /\ classified = NoHistory
    /\ net = "changing"
    /\ fresh = <<>>
    /\ persisted = <<>>
    /\ primary = "192.168.0.0/24"
    /\ merged = <<>>
    /\ phase = "none"
    /\ cli_known = EmptyDict
    /\ cli = [CliMenu EXCEPT !.pc = "none"]
    /\ sched = NoSched
    /\ cli_debug = FALSE
    /\ tree_states = "none"
    /\ debug_settings = "none"
    /\ fs = "sound"
    /\ saving = NoSave

get_network_interfaces_call ==
    /\ call.fn = "get_network_interfaces"
    /\ ~call.done
    /\ call' = [call EXCEPT !.result = network_interfaces(call.arg.system,
                                           call.arg.addr_infos, call.arg.arp_lines),
                            !.done = TRUE]
    /\ UNCHANGED <<guiVars, mergeVars, cliVars, schedVars, fileVars>>

NextCidr == get_network_interfaces_call

SpecCidr == InitCidr /\ [][NextCidr]_vars

\* Standard CIDR arithmetic, octet by octet: with a prefix of p bits an octet of the
\* network is the octet of the address rounded down to a multiple of the block
\* size, an octet of the broadcast address is the last of that block.
BlockSize(p, i) == 2 ^ (8 - PrefixBits(p, i))

CidrOf(address, r) ==
    LET p == r.subnet[2]
    IN  /\ \A i \in 1..4 : r.netmask[i] = 256 - BlockSize(p, i)
        /\ \A i \in 1..4 : r.network[i] = address[i] - (address[i] % BlockSize(p, i))
        /\ \A i \in 1..4 : r.broadcast[i] = r.network[i] + BlockSize(p, i) - 1
        /\ r.subnet[1] = r.network

load_persistent_data_keeping ==
    IF disk = Corrupt \/ disk = NoFile THEN EmptyDict ELSE disk

\* load_persistent_data(): the three json.load in one try; the handler sets
\* "self.known_devices = {}" whichever of them raised
load_persistent_data ==
    IF disk = Corrupt \/ tree_states = "corrupt" \/ debug_settings = "corrupt"
    THEN EmptyDict
    ELSE IF disk = NoFile THEN EmptyDict
    ELSE disk

\* WOLCasterGUI.__init__: load_persistent_data(), then start_continuous_scan()
WOLCasterGUI_init ==
    /\ worker[1].pc = "none"
    /\ ~scanning_active
    /\ known_devices' = load_persistent_data
    /\ known_tag' = [f \in DOMAIN known_devices' |-> 0]
    /\ earned' = EarnedOf(known_devices')
    /\ classified' = [loaded |-> StoreIps(known_devices'), up |-> {}]
    /\ scanning_active' = TRUE
    /\ worker' = [worker EXCEPT ![1] = [Idle EXCEPT !.pc = "while"]]
    /\ UNCHANGED <<disk, device_data, network_data, broadcasting_active, clock, net>>
    /\ UNCHANGED <<nonGuiVars, fileVars, call>>

\* the files known_devices.json may be at start-up, the unreadable one included
StartFiles == InitFiles \cup {Corrupt}

InitOnFiles ==
    /\ disk \in StartFiles
    /\ tree_states \in {"none", "valid", "corrupt"}
    /\ debug_settings \in {"none", "true", "false", "corrupt"}
    /\ fs = "failing"
    /\ saving = NoSave
    /\ net = "stable"
    /\ known_devices = EmptyDict
    /\ known_tag = EmptyDict
    /\ device_data = EmptyDict
    /\ network_data = EmptyDict
    /\ scanning_active = FALSE
    /\ broadcasting_active = FALSE
    /\ worker = [t \in Threads |-> Idle]
    /\ clock = 0
    /\ earned = {}
    /\ classified = NoHistory
    /\ fresh = <<>>
    /\ persisted = <<>>
    /\ primary = "192.168.0.0/24"
    /\ merged = <<>>
    /\ phase = "none"
    /\ cli_known = EmptyDict
    /\ cli = [CliMenu EXCEPT !.pc = "start"]
    /\ sched = NoSched
    /\ cli_debug = FALSE
    /\ call = NoCall

NextFiles ==
    \/ WOLCasterGUI_init
    \/ run_cli
    \/ \E t \in Threads : scan_worker(t)
    \/ update_tree_view

SpecFiles == InitOnFiles /\ [][NextFiles]_vars

\* one of the json.load of the GUI's load raises
GuiReadFails == disk = Corrupt \/ tree_states = "corrupt" \/ debug_settings = "corrupt"

\* one of the json.load of the CLI's load raises
CliReadFails == disk = Corrupt \/ debug_settings = "corrupt"

\* the step that constructs the GUI
GuiLoads == worker[1].pc = "none" /\ worker' # worker

\* the step that brings the CLI to its menu
CliLoads == cli.pc = "start" /\ cli' # cli

\* C17: when the reading or the parsing of a persisted file fails during
\* load_persistent_data (GUI) or load_cli_persistent_data (CLI), the store in memory
\* is empty after the load, and the caller goes on: the GUI starts its scan worker,
\* the CLI reaches its menu.
C17_ReadFailure ==
    [][/\ (GuiLoads /\ GuiReadFails) =>
             /\ known_devices' = EmptyDict
             /\ scanning_active' /\ worker'[1].pc = "while"
       /\ (CliLoads /\ CliReadFails) =>
             /\ cli_known' = EmptyDict
             /\ cli'.pc = "menu"]_vars

\* both programs have loaded a readable device file beside an unreadable
\* tree_states.json: the GUI's store is empty, the CLI, which does not read that
\* file, holds the devices
C17_Witness ==
    /\ disk = Put(EmptyDict, "en0", <<Nas, Campus>>)
    /\ tree_states = "corrupt" /\ debug_settings = "true"
    /\ worker[1].pc = "while" /\ clock = 0
    /\ known_devices = EmptyDict
    /\ cli.pc = "menu" /\ cli_known = disk

\* a step that ends a save, from the worker or from the tree view
SaveStep ==
    \/ \E t \in Threads : worker[t].pc = "ukd_loop" /\ worker'[t].pc = "for"
    \/ worker' = worker /\ cli' = cli /\ (disk' # disk \/ tree_states' # tree_states)

\* the save did not write both files
WriteFailed == ~(disk' = known_devices /\ tree_states' = "valid")

\* C18 as stated: when a write fails inside save_persistent_data, the store in
\* memory is reset to empty.
C18_WriteFailureResets ==
    [][(SaveStep /\ WriteFailed) => known_devices' = EmptyDict]_vars

\* C18: a save, failed or not, leaves the store in memory as it was, and the worker
\* that called it goes on to its next interface.
C18_WriteFailure ==
    [][/\ SaveStep => known_devices' = known_devices
       /\ \A t \in Threads :
             (/\ worker[t].pc = "ukd_loop"
              /\ worker[t].j > Len(worker[t].devices)
              /\ worker'[t] # worker[t])
             => worker'[t].pc = "for" /\ worker'[t].idx = worker[t].idx + 1]_vars

\* the worker is past a save that left the truncated file; the store holds its device
C18_Witness ==
    /\ disk = Corrupt
    /\ known_devices # EmptyDict
    /\ \E t \in Threads : worker[t].pc = "for" /\ worker[t].idx = 2

(***************************************************************************)
(* Properties of probe failures (SpecSched).                               *)
(***************************************************************************)
\* a probe's exception or timeout, or a callback's exception, has happened
ProbeFailed == sched.failed # {} \/ sched.cb_raised # {}

\* C19: an exception or a timeout of a single host probe, or an exception of the
\* live callback, does not abort the scan: the exception never reaches the scan
\* function's outer handler, and a scan that is over and was not interrupted by
\* the key has dispatched a probe for every host of the subnet and has processed
\* the result of every host whose probe returned in time.
C19_Isolated ==
    /\ ~sched.aborted
    /\ (ProbeFailed /\ sched.pc = "done" /\ ~sched.interrupted) =>
          /\ \A h \in 1..SchedHosts : sched.task[h] = "done"
          /\ sched.processed \cup sched.failed = 1..SchedHosts
          /\ sched.processed \cap sched.failed = {}
          /\ sched.failed = sched.raised \cup sched.timed_out
    /\ ProbeFailed => \A h \in sched.failed \cup sched.cb_raised : sched.task[h] # "new"

\* a live scan is over: the first probe raised, the wait for another timed out, the
\* callback raised for a third, and the last host's result was processed
C19_Witness ==
    /\ sched.mode = "live" /\ sched.pc = "done"
    /\ 1 \in sched.raised
    /\ sched.timed_out # {}
    /\ sched.cb_raised # {}
    /\ SchedHosts \in sched.processed \ sched.cb_raised

(***************************************************************************)
(* SpecStatus: check_device_status on every answer of a host: the ping     *)
(* ends with return code 0, with another one, or raises (its timeout       *)
(* included); each connect accepts, is refused, or raises.                 *)
(***************************************************************************)
PingOutcomes == {"returncode 0", "returncode 1", "raises"}

ConnectOutcomes == {"accepts", "refused", "raises"}

\* standby_ports = [80, 443, 22, 23, 3389, 5900]
standby_ports == <<80, 443, 22, 23, 3389, 5900>>

Ports == {standby_ports[k] : k \in 1..Len(standby_ports)}

\* ping_host: "return result.returncode == 0", "except Exception: return False"
ping_host(ping) == ping = "returncode 0"

\* a loop that a raising connect ends
RECURSIVE check_ports_stopping(_, _, _)
check_ports_stopping(connect, k, tried) ==
    IF k > Len(standby_ports) THEN [status |-> "offline", tried |-> tried]
    ELSE LET port == standby_ports[k]
         IN  IF connect[port] = "accepts"
             THEN [status |-> "standby", tried |-> Append(tried, port)]
             ELSE IF connect[port] = "raises"
             THEN [status |-> "offline", tried |-> Append(tried, port)]
             ELSE check_ports_stopping(connect, k + 1, Append(tried, port))

\* "for port in standby_ports:" from the k-th port on: connect_ex == 0 returns
\* "standby"; another result, or "except Exception: continue", goes to the next port
RECURSIVE check_ports(_, _, _)
check_ports(connect, k, tried) ==
    IF k > Len(standby_ports) THEN [status |-> "offline", tried |-> tried]
    ELSE LET port == standby_ports[k]
         IN  IF connect[port] = "accepts"
             THEN [status |-> "standby", tried |-> Append(tried, port)]
             ELSE check_ports(connect, k + 1, Append(tried, port))

\* check_device_status(ip): the status, and the ports a connect was attempted to
check_device_status(ping, connect) ==
    IF ping_host(ping) THEN [status |-> "online", tried |-> <<>>]
    ELSE check_ports(connect, 1, <<>>)

InitStatus ==
    /\ \E ping \in PingOutcomes, connect \in [Ports -> ConnectOutcomes] :
          call = [fn |-> "check_device_status",
                  arg |-> [ping |-> ping, connect |-> connect],
                  result |-> <<>>, done |-> FALSE]
    /\ known_devices = EmptyDict
    /\ known_tag = EmptyDict
    /\ disk = NoFile
    /\ device_data = EmptyDict
    /\ network_data = EmptyDict
    /\ scanning_active = FALSE
    /\ broadcasting_active = FALSE
    /\ worker = [t \in Threads |-> Idle]
    /\ clock = 0
    /\ earned = {}
    /\ classified = NoHistory
    /\ net = "changing"
    /\ fresh = <<>>
    /\ persisted = <<>>
    /\ primary = "192.168.0.0/24"
    /\ merged = <<>>
    /\ phase = "none"
    /\ cli_known = EmptyDict
    /\ cli = [CliMenu EXCEPT !.pc = "none"]
    /\ sched = NoSched
    /\ cli_debug = FALSE
    /\ tree_states = "none"
    /\ debug_settings = "none"
    /\ fs = "sound"
    /\ saving = NoSave

check_device_status_call ==
    /\ call.fn = "check_device_status"
    /\ ~call.done
    /\ call' = [call EXCEPT !.result = check_device_status(call.arg.ping, call.arg.connect),
                            !.done = TRUE]
    /\ UNCHANGED <<guiVars, mergeVars, cliVars, schedVars, fileVars>>

NextStatus == check_device_status_call

SpecStatus == InitStatus /\ [][NextStatus]_vars

\* the ports in the order the claim gives
StatedOrder == <<80, 443, 22, 23, 3389, 5900>>

\* C20: check_device_status returns "online" iff the ping succeeds, and then it
\* attempts no connect; otherwise it tries the ports in the order 80, 443, 22, 23,
\* 3389, 5900 and returns "standby" at the first port that accepts, whatever the
\* connects before it did (refused or raised); it returns "offline" iff the ping
\* and all six connects fail; it always returns one of the three.
C20_StatusOrder ==
    (call.done /\ call.fn = "check_device_status") =>
       LET ping_ok == call.arg.ping = "returncode 0"
           accepts(k) == call.arg.connect[StatedOrder[k]] = "accepts"
           r == call.result
       IN  /\ r.status \in {"online", "standby", "offline"}
           /\ r.status = "online" <=> ping_ok
           /\ ping_ok => r.tried = <<>>
           /\ ~ping_ok =>
                 \E n \in 1..6 :
                    /\ r.tried = SubSeq(StatedOrder, 1, n)
                    /\ \A k \in 1..(n - 1) : ~accepts(k)
                    /\ IF accepts(n) THEN r.status = "standby"
                       ELSE n = 6 /\ r.status = "offline"
           /\ r.status = "offline" <=> (~ping_ok /\ \A k \in 1..6 : ~accepts(k))

\* the ping fails, the connects to 80 and 443 raise, the one to 22 accepts
C20_Witness ==
    /\ call.done /\ call.fn = "check_device_status"
    /\ call.arg.ping = "raises"
    /\ call.arg.connect[80] = "raises" /\ call.arg.connect[443] = "raises"
    /\ call.arg.connect[22] = "accepts"
    /\ call.result = [status |-> "standby", tried |-> <<80, 443, 22>>]

(***************************************************************************)
(* SpecIdent: get_device_identifier on every answer of its five steps.  A  *)
(* text is the tuple of its pieces, <<>> is None.                          *)
(***************************************************************************)
NoText == <<>>

\* "if text:" for an optional text
TruthyText(text) == text # NoText /\ text # <<"">>

\* the characters of a piece, and len() of a text
Chars(piece) ==
    CASE piece = "" -> 0
      [] piece \in {".", "-", "1", "2", "3", "4", "5", "6"} -> 1
      [] piece = "pc" -> 2
      [] OTHER -> 9

RECURSIVE len(_)
len(text) == IF text = <<>> THEN 0 ELSE Chars(Head(text)) + len(Tail(text))

\* str(ip), and ip.split('.')[-1]
IpText(ip) == <<ip[1], ".", <<"1", "2", "3", "4", "5", "6">>[ip[2]]>>
LastOctet(ip) == IpText(ip)[3]

\* service_ports, in the order of the dict
service_ports == <<22, 23, 80, 443, 3389, 5900, 8080, 8443>>

service_name(port) ==
    CASE port = 22 -> "SSH" [] port = 23 -> "Telnet" [] port = 80 -> "HTTP"
      [] port = 443 -> "HTTPS" [] port = 3389 -> "RDP" [] port = 5900 -> "VNC"
      [] port = 8080 -> "HTTP-Alt" [] port = 8443 -> "HTTPS-Alt"

\* Method 1: socket.gethostbyaddr(ip)[0], kept when it is a name of more than two
\* characters that is not the address
reverse_dns(ip, dns) ==
    IF dns.raises THEN NoText
    ELSE IF TruthyText(dns.value) /\ dns.value # IpText(ip) /\ len(dns.value) > 2
    THEN dns.value ELSE NoText

\* Method 2 and Method 3: get_netbios_name_smbutil and get_apple_device_name, on
\* macOS only
darwin_only(system, answer) ==
    IF system # "Darwin" \/ answer.raises THEN NoText
    ELSE IF TruthyText(answer.value) THEN answer.value ELSE NoText

\* Method 4: the first port of service_ports, from the k-th on, that accepts
RECURSIVE service_detection(_, _, _)
service_detection(ip, connect, k) ==
    IF k > Len(service_ports) THEN NoText
    ELSE IF connect[service_ports[k]] = "accepts"
    THEN <<service_name(service_ports[k]), "-", LastOctet(ip)>>
    ELSE service_detection(ip, connect, k + 1)

\* Method 5: get_mac_address, then get_mac_vendor
mac_vendor(ip, arp) ==
    IF arp.raises \/ ~Truthy(arp.value) THEN NoText
    ELSE IF Truthy(get_mac_vendor(arp.value))
    THEN <<get_mac_vendor(arp.value), "-", LastOctet(ip)>>
    ELSE NoText

\* a chain that asks mDNS before NetBIOS
get_device_identifier_mdns_first(ip, a) ==
    LET steps == <<reverse_dns(ip, a.dns), darwin_only(a.system, a.mdns),
                   darwin_only(a.system, a.netbios),
                   service_detection(ip, a.connect, 1), mac_vendor(ip, a.arp)>>
        found == {k \in 1..5 : steps[k] # NoText}
    IN  IF found = {} THEN <<".", LastOctet(ip)>>
        ELSE steps[CHOOSE k \in found : \A j \in found : k <= j]

\* get_device_identifier(ip): each method returns when it has a value
get_device_identifier(ip, a) ==
    IF reverse_dns(ip, a.dns) # NoText THEN reverse_dns(ip, a.dns)
    ELSE IF darwin_only(a.system, a.netbios) # NoText THEN darwin_only(a.system, a.netbios)
    ELSE IF darwin_only(a.system, a.mdns) # NoText THEN darwin_only(a.system, a.mdns)
    ELSE IF service_detection(ip, a.connect, 1) # NoText
    THEN service_detection(ip, a.connect, 1)
    ELSE IF mac_vendor(ip, a.arp) # NoText THEN mac_vendor(ip, a.arp)
    ELSE <<".", LastOctet(ip)>>

\* the address the identifier is asked for
IdentIp == <<HomeNet, 5>>

\* what a step may answer: it raises, or it returns one of the values
Answers(values) == {[raises |-> TRUE, value |-> NoText]} \cup [raises : {FALSE}, value : values]

AllRefused == [p \in {service_ports[k] : k \in 1..Len(service_ports)} |-> "refused"]

\* the connects of Method 4: none accepts, all raise, one accepts, two accept, the
\* last accepts after the others raised
IdentConnects ==
    {AllRefused,
     [p \in DOMAIN AllRefused |-> "raises"],
     [AllRefused EXCEPT ![80] = "accepts"],
     [AllRefused EXCEPT ![443] = "accepts", ![23] = "accepts", ![22] = "raises"],
     [p \in DOMAIN AllRefused |-> IF p = 8443 THEN "accepts" ELSE "raises"]}

InitIdent ==
    /\ \E system \in {"Darwin", "Linux"},
          dns \in Answers({<<"nas.local">>, <<"pc">>, IpText(IdentIp)}),
          netbios \in Answers({NoText, <<"WINPC">>}),
          mdns \in Answers({NoText, <<"Kitchen-iMac">>}),
          connect \in IdentConnects,
          arp \in Answers({None} \cup Macs) :
          call = [fn |-> "get_device_identifier",
                  arg |-> [system |-> system, dns |-> dns, netbios |-> netbios,
                           mdns |-> mdns, connect |-> connect, arp |-> arp],
                  result |-> <<>>, done |-> FALSE]
    /\ known_devices = EmptyDict
    /\ known_tag = EmptyDict
    /\ disk = NoFile
    /\ device_data = EmptyDict
    /\ network_data = EmptyDict
    /\ scanning_active = FALSE
    /\ broadcasting_active = FALSE
    /\ worker = [t \in Threads |-> Idle]
    /\ clock = 0
    /\ earned = {}
    /\ classified = NoHistory
    /\ net = "changing"
    /\ fresh = <<>>
    /\ persisted = <<>>
    /\ primary = "192.168.0.0/24"
    /\ merged = <<>>
    /\ phase = "none"
    /\ cli_known = EmptyDict
    /\ cli = [CliMenu EXCEPT !.pc = "none"]
    /\ sched = NoSched
    /\ cli_debug = FALSE
    /\ tree_states = "none"
    /\ debug_settings = "none"
    /\ fs = "sound"
    /\ saving = NoSave

get_device_identifier_call ==
    /\ call.fn = "get_device_identifier"
    /\ ~call.done
    /\ call' = [call EXCEPT !.result = get_device_identifier(IdentIp, call.arg),
                            !.done = TRUE]
    /\ UNCHANGED <<guiVars, mergeVars, cliVars, schedVars, fileVars>>

NextIdent == get_device_identifier_call

SpecIdent == InitIdent /\ [][NextIdent]_vars

\* what each step of the stated order yields for the call's answers: reverse DNS,
\* NetBIOS, mDNS, open-port fingerprint, MAC vendor
StatedSteps ==
    LET a == call.arg
    IN  <<reverse_dns(IdentIp, a.dns), darwin_only(a.system, a.netbios),
          darwin_only(a.system, a.mdns), service_detection(IdentIp, a.connect, 1),
          mac_vendor(IdentIp, a.arp)>>

\* C21: get_device_identifier returns the value of the earliest step, in the order
\* reverse DNS, NetBIOS, mDNS, open-port fingerprint, MAC vendor, that yields one,
\* a step that raises yielding none; when no step yields a value it returns
\* "." and the last octet; it always returns, and never an empty value.
C21_Chain ==
    (call.done /\ call.fn = "get_device_identifier") =>
       /\ TruthyText(call.result)
       /\ \A k \in 1..5 :
             (StatedSteps[k] # NoText /\ \A j \in 1..(k - 1) : StatedSteps[j] = NoText)
             => call.result = StatedSteps[k]
       /\ (\A k \in 1..5 : StatedSteps[k] = NoText) => call.result = <<".", "5">>

\* reverse DNS raised, NetBIOS answered nothing, and both mDNS and a port have a
\* value: the mDNS name is returned
C21_Witness ==
    /\ call.done /\ call.fn = "get_device_identifier"
    /\ call.arg.system = "Darwin"
    /\ call.arg.dns.raises
    /\ ~call.arg.netbios.raises /\ call.arg.netbios.value = NoText
    /\ call.arg.connect[80] = "accepts"
    /\ call.result = <<"Kitchen-iMac">>

(***************************************************************************)
(* Properties of the delivery (SpecSched).                                 *)
(***************************************************************************)
\* the probe of h has returned its device and the result loop has not come to it
AwaitsDelivery(h) ==
    /\ sched.task[h] = "done"
    /\ h \notin sched.raised
    /\ h \notin sched.processed \cup sched.failed

\* the result loop is inside future.result of a host whose probe has not finished
LoopWaitsFor(g) == sched.pc = "results" /\ sched.next = g /\ sched.task[g] # "done"

\* C22: in live mode the device of a host is handed to the callback as soon as the
\* host's probe completes: while a completed probe awaits its delivery the result
\* loop is never waiting for the probe of another host.
C22_LiveAtOnce ==
    sched.mode = "live" =>
       \A h, g \in 1..SchedHosts : (AwaitsDelivery(h) /\ g # h) => ~LoopWaitsFor(g)

(***************************************************************************)
(* Properties of what the tree shows after a scan (Spec).                  *)
(***************************************************************************)
\* the tree shows the persisted record as an offline record that is not of the
\* current scan, its other fields as they were persisted
ShownOffline(interface_name, known) ==
    \E e \in Emitted(network_data, device_data, known_devices) :
       /\ e[1] = interface_name
       /\ e[3].ip = known.ip
       /\ e[3].status = "offline"
       /\ e[3].current_scan = "False"
       /\ e[3].hostname = known.hostname /\ e[3].mac = known.mac
       /\ e[3].vendor = known.vendor /\ e[3].last_seen = known.last_seen

\* C23: when the scan of an interface has returned, every device that was persisted
\* for the interface when the scan began and for which the scan received no probe
\* result is shown by the merge with status offline and current_scan false, its
\* other persisted fields unchanged.
C23_OfflineSynthesis ==
    \A t \in Threads :
       (worker[t].pc = "ukd" /\ ~worker[t].cleared) =>
          \A k \in 1..Len(worker[t].before) :
             worker[t].before[k].ip \notin worker[t].probed
             => ShownOffline(worker[t].iface, worker[t].before[k])

(***************************************************************************)
(* Properties of the classification (Spec).                                *)
(***************************************************************************)
\* the step in which the result loop receives the device of a host that the probe
\* classified offline
ReportsOffline(t) ==
    /\ worker[t].pc = "scan"
    /\ worker'[t].pc = "scan"
    /\ worker'[t].i = worker[t].i + 1
    /\ worker'[t].got
    /\ worker'[t].device.status = "offline"

\* C24: a scan cycle reports a host offline only if its address was in the store
\* loaded at start, or a scan has classified it online or standby since the last
\* history clear.
C24_NoHiddenToOffline ==
    [][\A t \in Threads :
          ReportsOffline(t) =>
             <<worker[t].iface, worker'[t].device.ip>> \in
                classified.loaded \cup classified.up]_vars

\* the same, for the cycles during which the history is not cleared
C24_WithoutClear ==
    [][\A t \in Threads :
          (ReportsOffline(t) /\ ~worker[t].cleared) =>
             <<worker[t].iface, worker'[t].device.ip>> \in
                classified.loaded \cup classified.up]_vars

(***************************************************************************)
(* Properties of the chunks (SpecSched).                                   *)
(***************************************************************************)
\* ceil(n / size)
CeilDiv(n, size) == (n + size - 1) \div size

\* the chunks are the contiguous ranges of ChunkSize hosts, in address order
ChunksOfSize ==
    /\ Len(sched.chunks) = CeilDiv(SchedHosts, ChunkSize)
    /\ \A c \in 1..Len(sched.chunks) :
          sched.chunks[c] = <<(c - 1) * ChunkSize + 1, Min(c * ChunkSize, SchedHosts)>>

\* a scan that ran to its end without the interrupt key
CompleteScan == sched.pc = "done" /\ sched.chunks # <<>> /\ ~sched.interrupted

\* C25: a scan that is not cancelled has split the n hosts of the subnet, in
\* address order, into ceil(n / chunk size) contiguous chunks of at most chunk size
\* hosts, and has submitted every host exactly once.
C25_ChunkPartition ==
    CompleteScan =>
       /\ ChunksOfSize
       /\ \A h \in 1..SchedHosts : sched.submitted[h] = 1

\* the same for the chunked scans, and the single submission for every scan
C25_Chunked ==
    CompleteScan =>
       /\ sched.mode # "parallel" => ChunksOfSize
       /\ \A h \in 1..SchedHosts : sched.submitted[h] = 1

(***************************************************************************)
(* SpecSave: the GUI process with save_persistent_data statement by        *)
(* statement: the files are opened for writing, then dumped and closed.    *)
(* The scan thread saves from update_known_devices, the GUI thread from    *)
(* update_tree_view.                                                       *)
(***************************************************************************)
\* the threads that are inside save_persistent_data
Savers == {t \in Threads : worker[t].pc = "save"} \cup (IF saving.gui THEN {0} ELSE {})

\* what json.dump leaves in a file: the data, or, when another save had the file
\* open at the same time, possibly a mixture no json.load accepts
Dumped(data) == IF saving.overlapped THEN {data, Corrupt} ELSE {data}

\* "with open(devices_file, 'w') as f:" truncates the file
update_known_devices_save_open(t) ==
    /\ worker[t].pc = "ukd_loop"
    /\ worker[t].j > Len(worker[t].devices)
    /\ disk' = Corrupt
    /\ saving' = [saving EXCEPT !.overlapped = Savers # {}]
    /\ worker' = [worker EXCEPT ![t].pc = "save"]
    /\ UNCHANGED <<known_devices, known_tag, device_data, network_data, scanning_active,
                   broadcasting_active, clock, earned, classified, net>>
    /\ UNCHANGED <<nonGuiVars, tree_states, debug_settings, fs, call>>

\* json.dump of the store and of the tree states; update_known_devices returns
update_known_devices_save_close(t) ==
    /\ worker[t].pc = "save"
    /\ disk' \in Dumped(known_devices)
    /\ tree_states' \in (IF saving.overlapped THEN {"valid", "corrupt"} ELSE {"valid"})
    /\ saving' = [saving EXCEPT !.overlapped = @ /\ Savers # {t}]
    /\ earned' = earned \cup EarnedOf(known_devices)
    /\ worker' = [worker EXCEPT ![t] = [Idle EXCEPT !.pc = "for",
                                                    !.idx = worker[t].idx + 1]]
    /\ UNCHANGED <<known_devices, known_tag, device_data, network_data, scanning_active,
                   broadcasting_active, clock, classified, net>>
    /\ UNCHANGED <<nonGuiVars, debug_settings, fs, call>>

\* update_tree_view on the GUI thread, up to the open inside its save
update_tree_view_save_open ==
    /\ ~saving.gui
    /\ disk' = Corrupt
    /\ saving' = [gui |-> TRUE, overlapped |-> Savers # {}]
    /\ UNCHANGED <<known_devices, known_tag, device_data, network_data, scanning_active,
                   broadcasting_active, worker, clock, earned, classified, net>>
    /\ UNCHANGED <<nonGuiVars, tree_states, debug_settings, fs, call>>

\* the dumps of update_tree_view's save
update_tree_view_save_close ==
    /\ saving.gui
    /\ disk' \in Dumped(known_devices)
    /\ tree_states' \in (IF saving.overlapped THEN {"valid", "corrupt"} ELSE {"valid"})
    /\ saving' = [gui |-> FALSE, overlapped |-> saving.overlapped /\ Savers # {0}]
    /\ UNCHANGED <<known_devices, known_tag, device_data, network_data, scanning_active,
                   broadcasting_active, worker, clock, earned, classified, net>>
    /\ UNCHANGED <<nonGuiVars, debug_settings, fs, call>>

InitSave ==
    /\ known_devices \in {EmptyDict, Put(EmptyDict, "en0", <<Nas>>)}
    /\ known_tag = [f \in DOMAIN known_devices |-> 0]
    /\ disk = IF known_devices = EmptyDict THEN NoFile ELSE known_devices
    /\ device_data = EmptyDict
    /\ network_data = EmptyDict
    /\ scanning_active = TRUE
    /\ broadcasting_active = FALSE
    /\ worker = [t \in Threads |-> IF t = 1 THEN [Idle EXCEPT !.pc = "while"] ELSE Idle]
    /\ clock = 0
    /\ earned = EarnedOf(known_devices)
    /\ classified = [loaded |-> StoreIps(known_devices), up |-> {}]
    /\ net = "stable"
    /\ fresh = <<>>
    /\ persisted = <<>>
    /\ primary = "192.168.0.0/24"
    /\ merged = <<>>
    /\ phase = "none"
    /\ cli_known = EmptyDict
    /\ cli = [CliMenu EXCEPT !.pc = "none"]
    /\ sched = NoSched
    /\ cli_debug = FALSE
    /\ tree_states = "none"
    /\ debug_settings = "none"
    /\ fs = "sound"
    /\ saving = NoSave
    /\ call = NoCall

NextSave ==
    \/ \E t \in Threads :
          \/ scan_worker_while(t)
          \/ scan_worker_for(t)
          \/ scan_host(t)
          \/ scan_return(t)
          \/ scan_raises(t)
          \/ update_known_devices_reset(t)
          \/ update_known_devices_loop(t)
          \/ update_known_devices_save_open(t)
          \/ update_known_devices_save_close(t)
          \/ scan_worker_sleep(t)
    \/ update_tree_view_save_open
    \/ update_tree_view_save_close

SpecSave == InitSave /\ [][NextSave]_vars

\* C26: at no time are two executions of save_persistent_data under way: a save of
\* the scan thread (update_known_devices) never overlaps a save of the GUI thread
\* (update_tree_view).
C26_NoInterleaving == Cardinality(Savers) <= 1

(***************************************************************************)
(* Properties of the store during a scan (Spec).                           *)
(***************************************************************************)
\* C27: a scan does not modify the persisted records it is given: from the start
\* of the scan of an interface until update_known_devices rewrites the store, the
\* store's list of that interface is what it was when the scan began (a history
\* clear in between apart).
C27_NoAliasing ==
    \A t \in Threads :
       (worker[t].pc \in {"scan", "ukd"} /\ ~worker[t].cleared) =>
          Get(known_devices, worker[t].iface, <<>>) = worker[t].before

(***************************************************************************)
(* SpecImport: the GUI process whose user imports exported device files    *)
(* and clears the history while the scan runs, in a stable network.        *)
(***************************************************************************)
\* str(ip)
IpStr(ip) == ip[1] \o "." \o ToString(ip[2])

\* device_key = f"{device_data.get('ip', '')}_{device_data.get('mac', '')}"
device_key(device_data_) ==
    (IF "ip" \in DOMAIN device_data_ THEN IpStr(device_data_.ip) ELSE "")
       \o "_" \o Get(device_data_, "mac", "")

\* "for device_data in imported_data['devices']": a device whose key is not in the
\* store is stored under its key
RECURSIVE import_devices(_, _)
import_devices(store, devices) ==
    IF devices = <<>> THEN store
    ELSE LET key == device_key(Head(devices))
         IN  import_devices(IF key \in DOMAIN store THEN store
                            ELSE Put(store, key, Head(devices)),
                            Tail(devices))

\* the files the user may choose: one that cannot be read or parsed, one without a
\* 'devices' entry, and the files exportJSON writes
ImportFiles ==
    {[kind |-> "unreadable", devices |-> <<>>], [kind |-> "other", devices |-> <<>>]}
       \cup {[kind |-> "export", devices |-> s] :
                s \in {<<>>} \cup {<<d>> : d \in ExportedDevices}
                             \cup {<<d, e>> : d, e \in ExportedDevices}}

\* importJSON, with the file the user chose
importJSON ==
    \E file \in ImportFiles :
       IF file.kind # "export" THEN UNCHANGED vars
       ELSE LET store == import_devices(known_devices, file.devices)
            IN  \E outcome \in WriteOutcomes :
                   /\ known_devices' = store
                   /\ known_tag' = [f \in DOMAIN store |-> Get(known_tag, f, NoTag)]
                   /\ disk' = CASE outcome = "open" -> disk
                                [] outcome = "dump" -> Corrupt
                                [] OTHER -> store
                   /\ tree_states' = CASE outcome = "written" -> "valid"
                                       [] outcome = "states" -> "corrupt"
                                       [] OTHER -> tree_states
                   /\ UNCHANGED <<device_data, network_data, scanning_active,
                                  broadcasting_active, worker, clock, earned,
                                  classified, net>>
                   /\ UNCHANGED <<nonGuiVars, debug_settings, fs, saving, call>>

InitImport ==
    /\ known_devices \in {EmptyDict, Put(EmptyDict, "en0", <<Nas>>)}
    /\ known_tag = [f \in DOMAIN known_devices |-> 0]
    /\ disk = IF known_devices = EmptyDict THEN NoFile ELSE known_devices
    /\ device_data = EmptyDict
    /\ network_data = EmptyDict
    /\ scanning_active = TRUE
    /\ broadcasting_active = FALSE
    /\ worker = [t \in Threads |-> IF t = 1 THEN [Idle EXCEPT !.pc = "while"] ELSE Idle]
    /\ clock = 0
    /\ earned = EarnedOf(known_devices)
    /\ classified = [loaded |-> StoreIps(known_devices), up |-> {}]
    /\ net = "stable"
    /\ fresh = <<>>
    /\ persisted = <<>>
    /\ primary = "192.168.0.0/24"
    /\ merged = <<>>
    /\ phase = "none"
    /\ cli_known = EmptyDict
    /\ cli = [CliMenu EXCEPT !.pc = "none"]
    /\ sched = NoSched
    /\ cli_debug = FALSE
    /\ tree_states = "none"
    /\ debug_settings = "none"
    /\ fs = "sound"
    /\ saving = NoSave
    /\ call = NoCall

NextImport ==
    \/ \E t \in Threads : scan_worker(t)
    \/ importJSON
    \/ clear_persistent_data
    \/ update_tree_view

SpecImport == InitImport /\ [][NextImport]_vars

\* the names of the interfaces of this machine
InterfaceNames ==
    {get_network_interfaces[i].interface : i \in 1..Len(get_network_interfaces)}

\* C28: in every reachable state the known-device store maps interface names to
\* lists of device records: no scan update, import or clear stores a value under a
\* key that is not an interface name, or a value that is not a list.
C28_StoreShape ==
    \A k \in DOMAIN known_devices :
       k \in InterfaceNames /\ isinstance_list(known_devices[k])

(***************************************************************************)
(* SpecEnum: get_network_interfaces on a machine with a loopback and two   *)
(* other interfaces, each with up to two IPv4 addresses, whose interface   *)
(* listing, address queries and arp command may fail.                      *)
(***************************************************************************)
\* netifaces.interfaces()
os_names == <<"lo0", "en0", "en1">>

\* "interface_name.startswith('lo') or 'Loopback' in interface_name"
is_loopback_name(interface_name) == interface_name = "lo0"

\* the body of the first loop for one interface name: nothing for a loopback name,
\* nothing when netifaces.ifaddresses raises ("except Exception: continue")
interfaces_of_name(os, interface_name) ==
    IF is_loopback_name(interface_name) \/ os.ifaddresses[interface_name].raises
    THEN <<>>
    ELSE LET addrs == os.ifaddresses[interface_name].infos
         IN  primary_interfaces([k \in 1..Len(addrs) |->
                                    [interface |-> interface_name,
                                     addr |-> addrs[k].addr,
                                     netmask |-> addrs[k].netmask]])

RECURSIVE first_loop(_, _)
first_loop(os, names) ==
    IF names = <<>> THEN <<>>
    ELSE interfaces_of_name(os, Head(names)) \o first_loop(os, Tail(names))

\* get_network_interfaces() on the machine os: the exception that leaves it, or
\* the list it returns.  "arp -a" that cannot be run, times out or ends with a
\* non-zero code adds nothing.
get_network_interfaces_os(os) ==
    IF os.listing = "raises"
    THEN [raised |-> TRUE, value |-> <<>>]
    ELSE LET interfaces == first_loop(os, os_names)
         IN  [raised |-> FALSE,
              value |-> interfaces \o
                           (IF os.system = "Darwin" /\ os.arp = "ok"
                            THEN additional_interfaces(interfaces, os.arp_lines)
                            ELSE <<>>)]

\* The inputs: the addresses an interface may have (no address twice), and a query
\* that raises.
EnumInfos == {[addr |-> <<192, 168, 0, 10>>, netmask |-> <<255, 255, 255, 0>>],
              [addr |-> <<10, 20, 30, 40>>, netmask |-> <<255, 255, 255, 0>>],
              [addr |-> <<172, 16, 255, 254>>, netmask |-> <<255, 255, 240, 0>>],
              [addr |-> <<192, 168, 0, 10>>, netmask |-> <<255, 0, 255, 0>>]}

Queries(MaxAddrs) ==
    {[raises |-> TRUE, infos |-> <<>>]}
       \cup {[raises |-> FALSE, infos |-> s] :
                s \in {<<>>} \cup {<<a>> : a \in EnumInfos}
                             \cup (IF MaxAddrs >= 2
                                   THEN {p \in EnumInfos \X EnumInfos :
                                            p[1].addr # p[2].addr}
                                   ELSE {})}

Machines ==
    {[system |-> system, listing |-> listing,
      ifaddresses |-> [lo0 |-> [raises |-> FALSE,
                                infos |-> <<[addr |-> Loopback,
                                             netmask |-> <<255, 0, 0, 0>>]>>],
                       en0 |-> q0, en1 |-> q1],
      arp |-> arp, arp_lines |-> arp_lines] :
        system \in {"Darwin", "Linux"}, listing \in {"ok", "raises"},
        q0 \in Queries(2), q1 \in Queries(1),
        arp \in {"ok", "raises", "nonzero"}, arp_lines \in ArpTables}

InitEnum ==
    /\ call \in [fn : {"get_network_interfaces"}, arg : Machines,
                 result : {[raised |-> FALSE, value |-> <<>>]}, done : {FALSE}]
    /\ known_devices = EmptyDict
    /\ known_tag = EmptyDict
    /\ disk = NoFile
    /\ device_data = EmptyDict
    /\ network_data = EmptyDict
    /\ scanning_active = FALSE
    /\ broadcasting_active = FALSE
    /\ worker = [t \in Threads |-> Idle]
    /\ clock = 0
    /\ earned = {}
    /\ classified = NoHistory
    /\ net = "changing"
    /\ fresh = <<>>
    /\ persisted = <<>>
    /\ primary = "192.168.0.0/24"
    /\ merged = <<>>
    /\ phase = "none"
    /\ cli_known = EmptyDict
    /\ cli = [CliMenu EXCEPT !.pc = "none"]
    /\ sched = NoSched
    /\ cli_debug = FALSE
    /\ tree_states = "none"
    /\ debug_settings = "none"
    /\ fs = "sound"
    /\ saving = NoSave

get_network_interfaces_os_call ==
    /\ call.fn = "get_network_interfaces"
    /\ ~call.done
    /\ call' = [call EXCEPT !.result = get_network_interfaces_os(call.arg),
                            !.done = TRUE]
    /\ UNCHANGED <<guiVars, mergeVars, cliVars, schedVars, fileVars>>

NextEnum == get_network_interfaces_os_call

SpecEnum == InitEnum /\ [][NextEnum]_vars

\* the <<interface, address>> the machine offers without a failure: an address of
\* an interface that is no loopback, whose query does not raise, with a netmask
Enumerable(os) ==
    UNION {{<<n, os.ifaddresses[n].infos[k].addr>> :
               k \in {i \in 1..Len(os.ifaddresses[n].infos) :
                         IsNetmask(os.ifaddresses[n].infos[i].netmask)}} :
           n \in {m \in {"en0", "en1"} : ~os.ifaddresses[m].raises}}

Returned == call.done /\ call.fn = "get_network_interfaces"

\* the records of the result that stand for OS interfaces, and the discovered ones
PrimaryOf(value) == {value[k] : k \in {i \in 1..Len(value) : ~value[i].discovered}}
DiscoveredAt(value) == {k \in 1..Len(value) : value[k].discovered}

\* the failures inside the loops are swallowed and cost only what failed
EnumSwallows ==
    (Returned /\ call.arg.listing = "ok") =>
       /\ ~call.result.raised
       /\ \A e \in Enumerable(call.arg) :
             \E r \in PrimaryOf(call.result.value) : r.interface = e[1] /\ r.ip = e[2]

\* C29: get_network_interfaces never raises: whichever query of the interface
\* table or inspection of the neighbour cache fails, it returns, and its result
\* holds every interface that was enumerated without a failure.
C29_NeverRaises ==
    Returned =>
       /\ ~call.result.raised
       /\ \A e \in Enumerable(call.arg) :
             \E r \in PrimaryOf(call.result.value) : r.interface = e[1] /\ r.ip = e[2]

\* C30: a discovered pseudo-interface stands for a neighbour address that lies in
\* the subnet of no enumerated interface, and no two pseudo-interfaces of a result
\* have the same first three octets.
C30_Discovered ==
    (Returned /\ ~call.result.raised) =>
       LET value == call.result.value
       IN  /\ \A k \in DiscoveredAt(value) :
                 \E n \in 1..Len(call.arg.arp_lines) :
                    LET line == call.arg.arp_lines[n]
                    IN  /\ line.interface = value[k].interface
                        /\ <<line.ip[1], line.ip[2], line.ip[3], 0>> = value[k].network
                        /\ \A p \in PrimaryOf(value) : ~InSubnet(line.ip, p.subnet)
           /\ \A j, k \in DiscoveredAt(value) :
                 value[j].network = value[k].network => j = k

\* on a machine with one address the pseudo-interfaces are as stated
C30_OneAddress ==
    (Returned /\ ~call.result.raised
              /\ Len(call.result.value) - Cardinality(DiscoveredAt(call.result.value)) <= 1) =>
       LET value == call.result.value
       IN  /\ \A k \in DiscoveredAt(value) :
                 \E n \in 1..Len(call.arg.arp_lines) :
                    LET line == call.arg.arp_lines[n]
                    IN  /\ line.interface = value[k].interface
                        /\ <<line.ip[1], line.ip[2], line.ip[3], 0>> = value[k].network
                        /\ \A p \in PrimaryOf(value) : ~InSubnet(line.ip, p.subnet)
           /\ \A j, k \in DiscoveredAt(value) :
                 value[j].network = value[k].network => j = k
(***************************************************************************)
(* SpecStop: the GUI process in a stable network whose user stops the scan *)
(* or clears the history and starts no scan again.  The worker thread is   *)
(* scheduled again and again, and each of its steps ends: every probe,     *)
(* every wait for a result and every sleep has a timeout.                  *)
(***************************************************************************)
InitStop ==
    /\ known_devices \in {EmptyDict, Put(EmptyDict, "en0", <<Nas>>)}
    /\ known_tag = [f \in DOMAIN known_devices |-> 0]
    /\ disk = IF known_devices = EmptyDict THEN NoFile ELSE known_devices
    /\ device_data = EmptyDict
    /\ network_data = EmptyDict
    /\ scanning_active = TRUE
    /\ broadcasting_active = FALSE
    /\ worker = [t \in Threads |-> IF t = 1 THEN [Idle EXCEPT !.pc = "while"] ELSE Idle]
    /\ clock = 0
    /\ earned = EarnedOf(known_devices)
    /\ classified = [loaded |-> StoreIps(known_devices), up |-> {}]
    /\ net = "stable"
    /\ fresh = <<>>
    /\ persisted = <<>>
    /\ primary = "192.168.0.0/24"
    /\ merged = <<>>
    /\ phase = "none"
    /\ cli_known = EmptyDict
    /\ cli = [CliMenu EXCEPT !.pc = "none"]
    /\ sched = NoSched
    /\ cli_debug = FALSE
    /\ tree_states = "none"
    /\ debug_settings = "none"
    /\ fs = "sound"
    /\ saving = NoSave
    /\ call = NoCall

NextStop ==
    \/ \E t \in Threads : scan_worker(t)
    \/ stop_scan
    \/ clear_persistent_data

SpecStop == InitStop /\ [][NextStop]_vars /\ \A t \in Threads : WF_vars(scan_worker(t))

\* no thread is inside scan_worker
NoWorker == \A t \in Threads : worker[t].pc = "none"

\* a step that takes the flag down
FlagDown == scanning_active /\ ~scanning_active'

\* C31: once scanning_active is False and no scan is started again, the worker
\* thread leaves its loop and ends; it begins the scan of an interface only when it
\* has read the flag as True; and the step that takes the flag down moves no
\* worker: an interface scan under way goes on to its return.
C31_StopEnds ==
    /\ (~scanning_active) ~> NoWorker
    /\ [][\A t \in Threads :
             (worker[t].pc # "scan" /\ worker'[t].pc = "scan") => scanning_active]_vars
    /\ [][\A t \in Threads :
             /\ FlagDown => (worker'[t].pc = worker[t].pc /\ worker'[t].i = worker[t].i)
             /\ (worker[t].pc = "scan" /\ worker[t].i <= Len(host_ips))
                   => worker'[t].pc \in {"scan", "ukd"}]_vars

\* the flag went down in the first cycle, the scan of the interface was stored and
\* the worker has ended
C31_Witness ==
    /\ ~scanning_active
    /\ NoWorker
    /\ clock = 1
    /\ Get(known_devices, "en0", <<>>) # <<>>
(***************************************************************************)
(* The octets of a padded MAC text (SpecPad).                              *)
(***************************************************************************)
\* the value of a hex digit, and of a group of hex digits
HexValue(c) ==
    CASE c = "0" -> 0 [] c = "1" -> 1 [] c = "2" -> 2 [] c = "3" -> 3 [] c = "4" -> 4
      [] c = "5" -> 5 [] c = "6" -> 6 [] c = "7" -> 7 [] c = "8" -> 8 [] c = "9" -> 9
      [] c \in {"a", "A"} -> 10 [] c \in {"b", "B"} -> 11 [] c \in {"c", "C"} -> 12
      [] c \in {"d", "D"} -> 13 [] c \in {"e", "E"} -> 14 [] c \in {"f", "F"} -> 15

RECURSIVE GroupValue(_)
GroupValue(group) ==
    IF group = <<>> THEN 0
    ELSE 16 * GroupValue(SubSeq(group, 1, Len(group) - 1)) + HexValue(group[Len(group)])

\* the groups of a text, between its separators
RECURSIVE SplitGroups(_)
SplitGroups(text) ==
    IF \A i \in 1..Len(text) : text[i] \notin Separators THEN <<text>>
    ELSE LET k == CHOOSE i \in 1..Len(text) :
                     /\ text[i] \in Separators
                     /\ \A j \in 1..(i - 1) : text[j] \notin Separators
         IN  <<SubSeq(text, 1, k - 1)>> \o SplitGroups(SubSeq(text, k + 1, Len(text)))

\* the octets of r are those of the groups of text
SameOctets(text, r) ==
    /\ SixPairs(r)
    /\ \A k \in 1..6 :
          GroupValue(SplitGroups(text)[k]) = GroupValue(SubSeq(r, 3 * k - 2, 3 * k - 1))

\* C32: for every MAC text of six groups of one or two hex digits, each of the six
\* pairs of the padded text has the value of the group of the input at its place,
\* whichever groups are short.
C32_OctetValues ==
    (call.done /\ call.arg \in Matches) => SameOctets(call.arg, call.result)

\* the octets are kept when no group is short, and when the first group alone is
\* short by one digit
C32_FirstGroupShort ==
    (call.done /\ call.arg \in Matches
        /\ \A k \in 2..6 : Len(SplitGroups(call.arg)[k]) = 2)
       => SameOctets(call.arg, call.result)
(***************************************************************************)
(* The worker threads (SpecToggle).                                        *)
(***************************************************************************)
\* the threads that are inside scan_worker
AliveWorkers == {t \in Threads : worker[t].pc # "none"}

\* C33: at most one scan_worker thread is alive at any time, also when the scan is
\* stopped and started again while the worker is inside an interface scan.
C33_OneWorker == Cardinality(AliveWorkers) <= 1
(***************************************************************************)
(* The store after a history clear (Spec).                                 *)
(***************************************************************************)
\* the <<interface, ip>> the store held for the interface of the cycle of t when
\* the cycle began
KnownBefore(t) ==
    {<<worker[t].iface, worker[t].before[k].ip>> : k \in 1..Len(worker[t].before)}

\* C34: a scan that was under way when the history was cleared writes no record
\* back that was known before the clear: after each of its steps the store, and the
\* file when the step writes it, hold a host of the store of before only if a probe
\* has classified it online or standby since the clear.
C34_ClearIsFinal ==
    [][\A t \in Threads :
          worker[t].cleared =>
             /\ (StoreIps(known_devices') \cap KnownBefore(t)) \subseteq classified'.up
             /\ disk' # disk =>
                   (StoreIps(disk') \cap KnownBefore(t)) \subseteq classified'.up]_vars
(***************************************************************************)
(* The store after a scan that failed (Spec).                              *)
(***************************************************************************)
\* C35: when the scan of an interface failed as a whole and returned an empty
\* list, no step of the scan worker changes the list the store holds for that
\* interface, in memory or in known_devices.json.
C35_FailedScanKeeps ==
    [][\A t \in Threads :
          (worker[t].failed /\ worker'[t] # worker[t] /\ ~worker'[t].cleared) =>
             /\ Get(known_devices', worker[t].iface, <<>>)
                   = Get(known_devices, worker[t].iface, <<>>)
             /\ Get(disk', worker[t].iface, <<>>) = Get(disk, worker[t].iface, <<>>)]_vars
(***************************************************************************)
(* The result of an interface scan (Spec).                                 *)
(***************************************************************************)
\* C36: when the scan of an interface has returned, a device of its result is
\* online or standby only if its probe of this scan returned online or standby.
C36_NoStaleReachability ==
    \A t \in Threads :
       (worker[t].pc = "ukd" /\ ~worker[t].failed) =>
          \A k \in 1..Len(worker[t].devices) :
             worker[t].devices[k].status \in {"online", "standby"}
                => worker[t].devices[k].ip \in worker[t].seen

\* C37: when the scan of an interface has returned, every host whose probe ended
\* with online or standby is in the result with such a status, also a host whose
\* probe ended after the wait for its result had expired.
C37_NoProbeLost ==
    \A t \in Threads :
       (worker[t].pc = "ukd" /\ ~worker[t].failed) =>
          \A ip \in worker[t].seen :
             \E k \in 1..Len(worker[t].devices) :
                /\ worker[t].devices[k].ip = ip
                /\ worker[t].devices[k].status \in {"online", "standby"}

\* the hosts whose result the loop received are in the result
C37_ReceivedKept ==
    \A t \in Threads :
       (worker[t].pc = "ukd" /\ ~worker[t].failed) =>
          \A ip \in worker[t].seen \cap worker[t].probed :
             \E k \in 1..Len(worker[t].devices) :
                /\ worker[t].devices[k].ip = ip
                /\ worker[t].devices[k].status \in {"online", "standby"}
(***************************************************************************)
(* The hostnames of the store (Spec).                                      *)
(***************************************************************************)
\* a name that name resolution gave, and not the label of the last octet
ResolvedName(record) ==
    Truthy(record.hostname) /\ record.hostname # LastOctetLabel(record.ip)

\* C38: a record of the store whose hostname was resolved does not get the
\* generic label of its address in its place: no step after which the host is
\* online replaces the resolved hostname of an ip by '.<last octet>'.
C38_NameNotDegraded ==
    [][\A f \in ListKeys(known_devices) \cap ListKeys(known_devices') :
          \A k \in 1..Len(known_devices[f]) :
             \A n \in 1..Len(known_devices'[f]) :
                (/\ known_devices'[f][n].ip = known_devices[f][k].ip
                 /\ known_devices'[f][n].status = "online"
                 /\ ResolvedName(known_devices[f][k]))
                   => known_devices'[f][n].hostname # LastOctetLabel(known_devices[f][k].ip)]_vars
(***************************************************************************)
(* The device file beside unreadable settings (SpecFiles).                 *)
(***************************************************************************)
\* known_devices.json exists and can be read
DevicesReadable == disk # Corrupt /\ disk # NoFile

\* C39: when known_devices.json is read and the reading of tree_states.json or of
\* debug_settings.json fails, the devices that were loaded stay in memory, and no
\* save of the constructed GUI replaces a file that holds devices by an empty store.
C39_UnrelatedFailures ==
    [][/\ (GuiLoads /\ DevicesReadable) => known_devices' = disk
       /\ (scanning_active /\ SaveStep /\ StoreIps(disk) # {}) => disk' # EmptyDict]_vars

====
